---------------------------- MODULE Spec2Model ----------------------------
(***************************************************************************)
(* A model of flashgrep: the chunker, the index engine with its metadata   *)
(* store and full-text writer, the file watcher's lock and ignore-rule     *)
(* reconciliation, and the read_code / write_code tools of the RPC         *)
(* surface.  Text is modelled as sequences of one-character strings, so    *)
(* that lines(), split, join and trim are computed rather than assumed.    *)
(***************************************************************************)
EXTENDS Integers, Sequences, FiniteSets, TLC

VARIABLES
    \* chunker (src/src/chunking/mod.rs)
    ckContent,      \* the text handed to chunk_file
    ckChunks,       \* Some(the chunks it returned), None before the call
    \* read_code continuation loop (src/src/mcp/code_io.rs)
    rdFile,         \* the file's content
    rdArgs,         \* the caller's start_line, end_line and budgets
    rdCursor,       \* the start line of the next call
    rdPieces,       \* the content strings returned so far
    rdServed,       \* the line numbers returned so far
    rdStatus,       \* "reading", "done", "too_large", "error"
    rdTool,         \* the tool the caller reads with: "read_code" or "get_slice"
    rdResponse,     \* Some(the last call's arguments and response), None before it
    \* write_code (src/src/mcp/code_io.rs)
    wrDisk,             \* path -> Option(content of the file)
    wrSessions,         \* session path -> Option(staged write session)
    wrOverflowChecks,   \* whether the build panics on integer overflow
    wrResponse,         \* what the last call returned
    wrRange,            \* the <<start_line, end_line>> the caller works on
    wrCalls,            \* the number of calls still to be made
    wrLast,             \* the last call's case and the disk before it
    wrTrace,            \* the calls of a caller's session, each with what it met and left
    \* watcher lock (src/src/watcher/mod.rs)
    lkFile,         \* watcher.lock: None, or Some([inode, content])
    lkAlive,        \* the PIDs of the live processes
    lkPc,           \* PID -> where that process is in acquire_watcher_lock
    lkHandle,       \* PID -> the inode its create-exclusive open returned
    lkInodes,       \* the number of lock files created so far
    \* metadata store (src/src/db/mod.rs)
    dbFiles,        \* the rows of table files (a set: file_path is UNIQUE)
    dbChunks,       \* the rows of table chunks, in id order
    dbSymbols,      \* the rows of table symbols, in id order
    dbFkDefault,    \* PRAGMA foreign_keys of a connection nobody set it on
    \* full-text index (the writer of src/src/index/engine.rs)
    ftPending,      \* documents added since the last commit
    ftCommitted,    \* documents a searcher sees
    \* repository, index engine and watcher
    ixDisk,         \* path -> Option([content, mtime]) of the file
    ixIgnoreFile,   \* the text of .flashgrepignore
    ixIndexedAs,    \* path -> Option(the file as it was last indexed)
    ixLast,         \* the last operation of the store or engine
    ixSteps,        \* the number of steps still to be taken
    wtIgnore,       \* the watcher's ignore_patterns
    wtPending,      \* the watcher's pending_changes
    wtState,        \* the index-state snapshot: path -> Option(metadata)
    \* one connection of an MCP transport (src/src/mcp/mod.rs, stdio.rs)
    mcTransport,    \* "tcp" or "stdio"
    mcOpen,         \* whether the server is still reading the connection
    mcLog,          \* per line read: the line, the response and what was written
    mcLines,        \* the number of lines still to come
    \* skill bootstrap (src/src/mcp/bootstrap.rs)
    bsTransport,    \* "tcp" or "stdio"
    bsInjected,     \* the server's injected flag
    bsSkill,        \* skills/SKILL.md: "present", "missing" or "unreadable"
    bsPending,      \* connection -> Some(the call between its load and its store), or None
    bsLog,          \* the bootstrap calls that returned, in order of return
    bsSteps,        \* the number of calls and file changes still to come
    \* search (src/src/search/mod.rs)
    srIndex,        \* the index: how many chunks match the query and which survive the filters
    srArgs,         \* the caller's limit and first offset
    srCursor,       \* Some(the offset of the next call), None when the paging ended
    srLog,          \* the responses so far, each with the options of its call
    srSteps,        \* the number of calls still to be made
    \* index-state snapshot (src/src/index/state.rs)
    stState,        \* the IndexState in memory: version, last_updated, files
    stFile,         \* index-state.json: None, or Some(its encoded content)
    stSaved,        \* Some(the IndexState the file was last saved from), None before
    stLast,         \* the last operation and whether it succeeded
    stSteps,        \* the number of operations still to come
    \* the command-line process (src/src/main.rs)
    xtCommand,      \* the subcommand given
    xtOutcome,      \* what cli::run returns: "Ok", or the kind of its FlashgrepError
    xtExit,         \* Some(the process's exit code), None while it runs
    deDebounceMs,       \* config.debounce_ms
    deRx,               \* the channel from the notify callback to process_events
    dePending,          \* pending_changes: path -> Option(ms since its Instant)
    deSinceUpdate,      \* ms since last_update
    deRunning,          \* process_events has not returned
    deEvents,           \* file-system events still to come
    deEntered,          \* path -> times it entered pending_changes while absent
    deHandled,          \* path -> times handle_change was called on it
    deReady,            \* the iteration's dispatches: <<path, ms since its Instant>>
    scPhase,            \* where watch_with_initial_scan is: "start", "watching"
    scAdded,            \* the paths the initial scan counted in files_added
    scModified,         \* the paths it counted in files_modified
    scDeleted,          \* the paths it counted in files_deleted
    \* concurrent write_code calls
    cwBefore,       \* the target file before any of the calls ran
    cwFile,         \* the target file
    cwCall,         \* per connection: the call's arguments, position, the content it read, its response
    \* the watcher's periodic save of the snapshot
    svLen,          \* index_state.len(): the files in the in-memory snapshot
    svUnsaved,      \* updates by update_index_state_for_file since the snapshot was last saved
    \* one save of the snapshot, step by step
    saPath,         \* the path save is given, as its dot-separated parts
    saState,        \* the snapshot being saved
    saPrevious,     \* what index-state.json held before the save
    saFiles,        \* the files of the directory, by name
    saPc,           \* the position of save
    \* one .flashgrepignore pattern matched against one name
    glPattern,      \* the pattern
    glName,         \* the name
    glMatched       \* what match_pattern answered, None before the call

ckVars == <<ckContent, ckChunks>>
rdVars == <<rdFile, rdArgs, rdCursor, rdPieces, rdServed, rdStatus, rdTool, rdResponse>>
wrVars == <<wrDisk, wrSessions, wrOverflowChecks, wrResponse, wrRange, wrCalls, wrLast,
           wrTrace>>
lkVars == <<lkFile, lkAlive, lkPc, lkHandle, lkInodes>>
ixVars == <<dbFiles, dbChunks, dbSymbols, dbFkDefault, ftPending, ftCommitted,
           ixDisk, ixIgnoreFile, ixIndexedAs, ixLast, ixSteps,
           wtIgnore, wtPending, wtState>>
mcVars == <<mcTransport, mcOpen, mcLog, mcLines>>
bsVars == <<bsTransport, bsInjected, bsSkill, bsPending, bsLog, bsSteps>>
srVars == <<srIndex, srArgs, srCursor, srLog, srSteps>>
stVars == <<stState, stFile, stSaved, stLast, stSteps>>
xtVars == <<xtCommand, xtOutcome, xtExit>>
deVars == <<deDebounceMs, deRx, dePending, deSinceUpdate, deRunning, deEvents, deEntered, deHandled, deReady>>
scVars == <<scPhase, scAdded, scModified, scDeleted>>
cwVars == <<cwBefore, cwFile, cwCall>>
svVars == <<svLen, svUnsaved>>
saVars == <<saPath, saState, saPrevious, saFiles, saPc>>
glVars == <<glPattern, glName, glMatched>>
vars == <<ckVars, rdVars, wrVars, lkVars, ixVars, mcVars, bsVars, srVars, stVars, xtVars, deVars, scVars, cwVars, svVars, saVars, glVars>>

\* What an action of one part leaves alone: the variables of the other parts.
nonCkVars == <<rdVars, wrVars, lkVars, ixVars, mcVars, bsVars, srVars, stVars, xtVars, deVars, scVars, cwVars, svVars, saVars, glVars>>
nonRdVars == <<ckVars, wrVars, lkVars, ixVars, mcVars, bsVars, srVars, stVars, xtVars, deVars, scVars, cwVars, svVars, saVars, glVars>>
nonWrVars == <<ckVars, rdVars, lkVars, ixVars, mcVars, bsVars, srVars, stVars, xtVars, deVars, scVars, cwVars, svVars, saVars, glVars>>
nonLkVars == <<ckVars, rdVars, wrVars, ixVars, mcVars, bsVars, srVars, stVars, xtVars, deVars, scVars, cwVars, svVars, saVars, glVars>>
nonIxVars == <<ckVars, rdVars, wrVars, lkVars, mcVars, bsVars, srVars, stVars, xtVars, deVars, scVars, cwVars, svVars, saVars, glVars>>
nonBsVars == <<ckVars, rdVars, wrVars, lkVars, ixVars, mcVars, srVars, stVars, xtVars, deVars, scVars, cwVars, svVars, saVars, glVars>>
nonSrVars == <<ckVars, rdVars, wrVars, lkVars, ixVars, mcVars, bsVars, stVars, xtVars, deVars, scVars, cwVars, svVars, saVars, glVars>>
nonStVars == <<ckVars, rdVars, wrVars, lkVars, ixVars, mcVars, bsVars, srVars, xtVars, deVars, scVars, cwVars, svVars, saVars, glVars>>
nonXtVars == <<ckVars, rdVars, wrVars, lkVars, ixVars, mcVars, bsVars, srVars, stVars, deVars, scVars, cwVars, svVars, saVars, glVars>>
nonDeVars == <<ckVars, rdVars, wrVars, lkVars, ixVars, mcVars, bsVars, srVars, stVars, xtVars, scVars, cwVars, svVars, saVars, glVars>>
nonScVars == <<ckVars, rdVars, wrVars, lkVars, ixVars, mcVars, bsVars, srVars, stVars, xtVars, deVars, cwVars, svVars, saVars, glVars>>

\* Option<T>: None is the empty sequence, Some(x) the one-element sequence.
None == <<>>
Some(x) == <<x>>
IsSome(o) == o # <<>>
Unwrap(o) == o[1]
OptionOf(S) == {None} \cup {Some(x) : x \in S}

-----------------------------------------------------------------------------
(* Text *)

NL == "\n"
CR == "\r"
Whitespace == {" ", "\t", CR, NL}

Min(a, b) == IF a <= b THEN a ELSE b
Max(a, b) == IF a >= b THEN a ELSE b

\* The positions of s, in order, whose character is c.
PositionsOf(s, c) == SelectSeq([i \in 1..Len(s) |-> i], LAMBDA i : s[i] = c)

\* A line that "\n" ended loses one "\r" before it ("\r\n" is a line ending).
StripCR(line) ==
    IF line # <<>> /\ line[Len(line)] = CR THEN SubSeq(line, 1, Len(line) - 1) ELSE line

\* str::lines(): split at "\n"; the text after the last "\n" is a line only
\* when it is not empty.
Lines(s) ==
    LET nl == PositionsOf(s, NL)
        tail == IF Len(nl) = 0 THEN s ELSE SubSeq(s, nl[Len(nl)] + 1, Len(s))
        n == Len(nl) + (IF tail = <<>> THEN 0 ELSE 1)
        first(k) == IF k = 1 THEN 1 ELSE nl[k - 1] + 1
    IN [k \in 1..n |->
          IF k <= Len(nl) THEN StripCR(SubSeq(s, first(k), nl[k] - 1)) ELSE tail]

\* str::split('\n'): one piece more than there are "\n".
SplitNL(s) ==
    LET nl == PositionsOf(s, NL)
        first(k) == IF k = 1 THEN 1 ELSE nl[k - 1] + 1
        last(k) == IF k <= Len(nl) THEN nl[k] - 1 ELSE Len(s)
    IN [k \in 1..(Len(nl) + 1) |-> SubSeq(s, first(k), last(k))]

\* [String]::join("\n")
RECURSIVE JoinRange(_, _, _)
JoinRange(lines, lo, hi) ==
    IF lo > hi THEN <<>>
    ELSE IF lo = hi THEN lines[lo]
    ELSE LET mid == (lo + hi) \div 2
         IN JoinRange(lines, lo, mid) \o <<NL>> \o JoinRange(lines, mid + 1, hi)

Join(lines) == JoinRange(lines, 1, Len(lines))

\* str::trim()
Trim(line) ==
    LET keep == {i \in 1..Len(line) : line[i] \notin Whitespace}
    IN IF keep = {} THEN <<>>
       ELSE SubSeq(line, CHOOSE i \in keep : \A j \in keep : i <= j,
                         CHOOSE i \in keep : \A j \in keep : i >= j)

\* str::ends_with('\n')
EndsWithNL(s) == s # <<>> /\ s[Len(s)] = NL

\* SHA-256, taken to be collision free: the digest stands for its input.
Sha256(s) == <<"sha256", s>>

-----------------------------------------------------------------------------
(* Chunker: src/src/chunking/mod.rs *)

MAX_CHUNK_LINES == 300

OpenBrackets == {"{", "[", "("}
CloseBrackets == {"}", "]", ")"}

\* The change of bracket_depth over one line (lines 52-58).
BracketDelta(line) ==
    Cardinality({i \in 1..Len(line) : line[i] \in OpenBrackets})
    - Cardinality({i \in 1..Len(line) : line[i] \in CloseBrackets})

\* One pass of the loop body of find_chunk_boundary for index i (0-based).
BoundaryStepBroken(st, lines, i) ==
    LET line == Trim(lines[i + 1])
        depth == st.bracket_depth + BracketDelta(line)
        blank == IF line = <<>> THEN Some(i) ELSE st.last_blank_line
    IN [bracket_depth |-> depth, last_blank_line |-> blank, end |-> i + 1,
        broke |-> blank = Some(i)]

BoundaryStep(st, lines, i) ==
    LET line == Trim(lines[i + 1])
        depth == st.bracket_depth + BracketDelta(line)
        blank == IF line = <<>> THEN Some(i) ELSE st.last_blank_line
    IN [bracket_depth |-> depth, last_blank_line |-> blank, end |-> i + 1,
        broke |-> depth = 0 /\ blank = Some(i)]

\* for i in lo..hi (hi exclusive), stopping at the break; the range is halved
\* so that a 300-line window does not nest 300 deep.
RECURSIVE BoundaryLoop(_, _, _, _)
BoundaryLoop(st, lines, lo, hi) ==
    IF st.broke \/ lo >= hi THEN st
    ELSE IF hi = lo + 1 THEN BoundaryStep(st, lines, lo)
    ELSE LET mid == (lo + hi) \div 2
         IN BoundaryLoop(BoundaryLoop(st, lines, lo, mid), lines, mid, hi)

\* find_chunk_boundary: <<end, chunk_lines>>, start 0-based, end exclusive.
find_chunk_boundary(lines, start) ==
    LET max_end == Min(start + MAX_CHUNK_LINES, Len(lines))
        st == BoundaryLoop([bracket_depth |-> 0, last_blank_line |-> None,
                            end |-> start, broke |-> FALSE], lines, start, max_end)
        end == IF st.end = start THEN max_end ELSE st.end
    IN <<end, SubSeq(lines, start + 1, end)>>

\* Chunk::new (src/src/db/models.rs)
Chunk(file_path, start_line, end_line, content, last_modified) ==
    [file_path |-> file_path, start_line |-> start_line, end_line |-> end_line,
     content_hash |-> Sha256(content), content |-> content,
     last_modified |-> last_modified]

NextChunkStartSkipping(chunk_end) == chunk_end + 1

\* "Next chunk starts where this one ended" (line 35).
NextChunkStart(chunk_end) == chunk_end

RECURSIVE ChunkLoop(_, _, _, _)
ChunkLoop(file_path, lines, last_modified, current_start) ==
    IF current_start >= Len(lines) THEN <<>>
    ELSE LET b == find_chunk_boundary(lines, current_start)
             chunk == Chunk(file_path, current_start + 1, b[1], Join(b[2]), last_modified)
         IN <<chunk>> \o ChunkLoop(file_path, lines, last_modified,
                                   NextChunkStart(b[1]))

chunk_file(file_path, content, last_modified) ==
    ChunkLoop(file_path, Lines(content), last_modified, 0)

PATH_A == "a.rs"

\* Texts of at most n characters over an alphabet.
RECURSIVE TextsUpTo(_, _)
TextsUpTo(alphabet, n) ==
    IF n = 0 THEN {<<>>}
    ELSE LET shorter == TextsUpTo(alphabet, n - 1)
         IN shorter \cup {Append(t, c) : t \in shorter, c \in alphabet}

\* The text of a file whose lines are the given ones, each ended by "\n".
TextOfLines(lines) == Join(lines) \o (IF lines = <<>> THEN <<>> ELSE <<NL>>)

MaxChunkText == 4
ChunkAlphabet == {"x", "{", "}", " ", NL}

\* Files longer than the ceiling: all text; an unclosed bracket before blank
\* lines; a blank line just below, at and just above the ceiling.
LongTexts ==
    { TextOfLines([k \in 1..(MAX_CHUNK_LINES + 1) |-> <<"x">>]),
      TextOfLines([k \in 1..(MAX_CHUNK_LINES + 2) |-> IF k = 1 THEN <<"{">> ELSE <<>>]),
      TextOfLines([k \in 1..(MAX_CHUNK_LINES + 1) |->
                      IF k = MAX_CHUNK_LINES - 1 THEN <<>> ELSE <<"x">>]),
      TextOfLines([k \in 1..(MAX_CHUNK_LINES + 1) |->
                      IF k = MAX_CHUNK_LINES THEN <<" ">> ELSE <<"x">>]),
      TextOfLines([k \in 1..(MAX_CHUNK_LINES + 2) |->
                      IF k = MAX_CHUNK_LINES + 1 THEN <<>> ELSE <<"x">>]),
      TextOfLines([k \in 1..(2 * MAX_CHUNK_LINES + 1) |->
                      IF k = 2 THEN <<"(", "x">> ELSE <<"x", " ">>]) }

ChunkInputs == TextsUpTo(ChunkAlphabet, MaxChunkText) \cup LongTexts

StartChunk == ckContent \in ChunkInputs /\ ckChunks = None
IdleChunk == ckContent = <<>> /\ ckChunks = None

ChunkFile ==
    /\ ckChunks = None
    /\ ckChunks' = Some(chunk_file(PATH_A, ckContent, 0))
    /\ UNCHANGED <<ckContent, nonCkVars>>

-----------------------------------------------------------------------------
(* read_code: src/src/mcp/code_io.rs *)

MAX_MCP_READ_BYTES == 192 * 1024

\* A failed call (FlashgrepError), and the payload_too_large result body.
Err(message) == [kind |-> "error", message |-> message]
PayloadTooLarge(operation, observed_bytes, limit_bytes) ==
    [kind |-> "payload_too_large", error |-> "payload_too_large", operation |-> operation,
     observed_bytes |-> observed_bytes, limit_bytes |-> limit_bytes]

\* parse_limits (lines 547-572)
parse_limits(arguments) ==
    IF \/ arguments.max_lines = Some(0)
       \/ arguments.max_bytes = Some(0)
       \/ arguments.max_tokens = Some(0)
    THEN Err("Budget limits must be positive integers")
    ELSE IF IsSome(arguments.max_bytes) /\ Unwrap(arguments.max_bytes) > MAX_MCP_READ_BYTES
    THEN Err("max_bytes exceeds server safety limit")
    ELSE [kind |-> "ok",
          max_lines |-> arguments.max_lines,
          max_bytes |-> Some(IF IsSome(arguments.max_bytes)
                             THEN Unwrap(arguments.max_bytes) ELSE MAX_MCP_READ_BYTES),
          max_tokens |-> arguments.max_tokens]

\* read_file_slice (lines 574-636); file is None when the path cannot be read.
\* The lines are <<line number, text>> pairs.
read_file_slice(file, start_line, requested_end_line) ==
    IF start_line = 0 THEN Err("start_line must be greater than 0")
    ELSE IF file = None THEN Err("io")
    ELSE LET all_lines == Lines(Unwrap(file))
             end_line == Min(IF IsSome(requested_end_line) THEN Unwrap(requested_end_line)
                                                          ELSE Len(all_lines),
                             Len(all_lines))
         IN IF all_lines = <<>> THEN [kind |-> "ok", lines |-> <<>>]
            ELSE IF start_line > Len(all_lines) THEN Err("start_line exceeds file line count")
            ELSE IF end_line < start_line THEN Err("Invalid range")
            ELSE [kind |-> "ok",
                  lines |-> [idx \in 1..(end_line - start_line + 1) |->
                               <<start_line + idx - 1, all_lines[start_line + idx - 1]>>]]

\* estimate_tokens (lines 726-728): split_whitespace().count()
estimate_tokens(line) ==
    Cardinality({i \in 1..Len(line) :
                   line[i] \notin Whitespace /\ (i = 1 \/ line[i - 1] \in Whitespace)})

WithinBudgetAndOneMore(budget, value) == IsSome(budget) => value <= Unwrap(budget) + 1

\* Whether a budget admits a value (lines 687-689).
WithinBudget(budget, value) == IsSome(budget) => value <= Unwrap(budget)

\* The for loop of apply_budgets (lines 679-698): included is the number of
\* lines taken so far.
RECURSIVE BudgetLoop(_, _, _, _, _)
BudgetLoop(lines, limits, included, consumed_bytes, consumed_tokens) ==
    IF included = Len(lines)
    THEN [included |-> included, consumed_bytes |-> consumed_bytes,
          consumed_tokens |-> consumed_tokens]
    ELSE LET line == lines[included + 1][2]
             sep_bytes == IF included = 0 THEN 0 ELSE 1
             next_lines == included + 1
             next_bytes == consumed_bytes + Len(line) + sep_bytes
             next_tokens == consumed_tokens + estimate_tokens(line)
         IN IF /\ WithinBudget(limits.max_lines, next_lines)
               /\ WithinBudget(limits.max_bytes, next_bytes)
               /\ WithinBudget(limits.max_tokens, next_tokens)
            THEN BudgetLoop(lines, limits, next_lines, next_bytes, next_tokens)
            ELSE [included |-> included, consumed_bytes |-> consumed_bytes,
                  consumed_tokens |-> consumed_tokens]

NextStartLineRepeating(lines, consumed_lines) == Some(lines[consumed_lines][1])

\* lines.get(consumed_lines) (line 709)
NextStartLine(lines, consumed_lines) == Some(lines[consumed_lines + 1][1])

\* apply_budgets answering with an empty truncated page when no line fits.
apply_budgets_empty_page(lines, limits) ==
    LET r == BudgetLoop(lines, limits, 0, 0, 0)
        truncated == r.included < Len(lines)
    IN IF lines = <<>> \/ r.included = 0
       THEN Some([included_lines |-> <<>>, first_line |-> 1, last_line |-> 0,
                  consumed_lines |-> 0, consumed_bytes |-> 0, consumed_tokens |-> 0,
                  truncated |-> lines # <<>>,
                  next_start_line |-> IF lines = <<>> THEN None ELSE Some(lines[1][1])])
       ELSE Some([included_lines |-> SubSeq(lines, 1, r.included),
                  first_line |-> lines[1][1],
                  last_line |-> lines[r.included][1],
                  consumed_lines |-> r.included,
                  consumed_bytes |-> r.consumed_bytes,
                  consumed_tokens |-> r.consumed_tokens,
                  truncated |-> truncated,
                  next_start_line |-> IF truncated THEN NextStartLine(lines, r.included)
                                                   ELSE None])

\* apply_budgets (lines 661-724): None when not even one line fits.
apply_budgets(lines, limits) ==
    IF lines = <<>>
    THEN Some([included_lines |-> <<>>, first_line |-> 1, last_line |-> 0,
               consumed_lines |-> 0, consumed_bytes |-> 0, consumed_tokens |-> 0,
               truncated |-> FALSE, next_start_line |-> None])
    ELSE LET r == BudgetLoop(lines, limits, 0, 0, 0)
             truncated == r.included < Len(lines)
         IN IF r.included = 0 THEN None
            ELSE Some([included_lines |-> SubSeq(lines, 1, r.included),
                       first_line |-> lines[1][1],
                       last_line |-> lines[r.included][1],
                       consumed_lines |-> r.included,
                       consumed_bytes |-> r.consumed_bytes,
                       consumed_tokens |-> r.consumed_tokens,
                       truncated |-> truncated,
                       next_start_line |-> IF truncated THEN NextStartLine(lines, r.included)
                                                        ELSE None])

\* read_code in slice mode (lines 63-161).
read_code(file, arguments) ==
    LET limits == parse_limits(arguments)
        start_line == IF IsSome(arguments.continuation_start_line)
                      THEN Unwrap(arguments.continuation_start_line)
                      ELSE IF IsSome(arguments.start_line) THEN Unwrap(arguments.start_line)
                      ELSE 1
        read_target == read_file_slice(file, start_line, arguments.end_line)
        bounded == apply_budgets(read_target.lines, limits)
    IN IF limits.kind = "error" THEN limits
       ELSE IF read_target.kind = "error" THEN read_target
       ELSE IF bounded = None
       THEN PayloadTooLarge("read_code", Len(read_target.lines[1][2]),
                            Unwrap(limits.max_bytes))
       ELSE [kind |-> "ok",
             content |-> Join([k \in 1..Len(Unwrap(bounded).included_lines) |->
                                 Unwrap(bounded).included_lines[k][2]]),
             start_line |-> Unwrap(bounded).first_line,
             end_line |-> Unwrap(bounded).last_line,
             truncated |-> Unwrap(bounded).truncated,
             continuation_start_line |-> Unwrap(bounded).next_start_line]

-----------------------------------------------------------------------------
(* write_code: src/src/mcp/code_io.rs *)

MAX_MCP_WRITE_REPLACEMENT_BYTES == 128 * 1024

\* usize::MAX.  Only ever compared with line counts; TLC's integers are 32 bits
\* wide, so the largest of them stands for 2^64 - 1.
USIZE_MAX == 2147483647

\* A panic of the handler's thread.
Panic == [kind |-> "panic"]

\* n - 1 on usize: with overflow checks (debug builds) 0 - 1 panics, without
\* them (release builds) it wraps.  None stands for the panic.
SubOne(n, overflow_checks) ==
    IF n > 0 THEN Some(n - 1)
    ELSE IF overflow_checks THEN None ELSE Some(USIZE_MAX)

\* lines.get(index).cloned().unwrap_or_default(), index 0-based
LineOrDefault(lines, index) == IF index < Len(lines) THEN lines[index + 1] ELSE <<>>

\* check_preconditions (lines 756-814): the mismatching fields (the conflict is
\* Some exactly when there is one), or a panic.  A precondition is a record of
\* three optional fields.
check_preconditions(precondition, lines, current_hash, start_line, end_line, overflow_checks) ==
    IF precondition = None THEN [panicked |-> FALSE, mismatches |-> <<>>]
    ELSE LET p == Unwrap(precondition)
             start_index == SubOne(start_line, overflow_checks)
             end_index == SubOne(end_line, overflow_checks)
             hash_mismatch ==
                IF IsSome(p.expected_file_hash) /\ Unwrap(p.expected_file_hash) # current_hash
                THEN <<"expected_file_hash">> ELSE <<>>
             start_mismatch ==
                IF /\ IsSome(p.expected_start_line_text)
                   /\ Unwrap(p.expected_start_line_text) # LineOrDefault(lines, Unwrap(start_index))
                THEN <<"expected_start_line_text">> ELSE <<>>
             end_mismatch ==
                IF /\ IsSome(p.expected_end_line_text)
                   /\ Unwrap(p.expected_end_line_text) # LineOrDefault(lines, Unwrap(end_index))
                THEN <<"expected_end_line_text">> ELSE <<>>
         IN IF \/ IsSome(p.expected_start_line_text) /\ start_index = None
               \/ IsSome(p.expected_end_line_text) /\ end_index = None
            THEN [panicked |-> TRUE, mismatches |-> <<>>]
            ELSE [panicked |-> FALSE,
                  mismatches |-> hash_mismatch \o start_mismatch \o end_mismatch]

\* The lines of a replacement (lines 239-243).
ReplacementLines(replacement) == IF replacement = <<>> THEN <<>> ELSE SplitNL(replacement)

\* original_lines[..start_line - 1] ++ replacement_lines ++ original_lines[end_line..]
\* (lines 245-248): None when the subtraction or a slice panics.
Splice(original_lines, start_line, end_line, replacement_lines, overflow_checks) ==
    LET head_end == SubOne(start_line, overflow_checks)
    IN IF head_end = None THEN None
       ELSE IF Unwrap(head_end) > Len(original_lines) THEN None
       ELSE IF end_line > Len(original_lines) THEN None
       ELSE Some(SubSeq(original_lines, 1, Unwrap(head_end))
                 \o replacement_lines
                 \o SubSeq(original_lines, end_line + 1, Len(original_lines)))

\* new_lines.join("\n"), with the original's trailing newline (lines 250-253).
NewContent(new_lines, had_trailing_newline) ==
    Join(new_lines) \o (IF had_trailing_newline THEN <<NL>> ELSE <<>>)

\* end_line - start_line + 1 in the response (lines 263, 437): None when the
\* subtraction panics.
ReplacedLineCount(start_line, end_line, overflow_checks) ==
    IF end_line >= start_line THEN Some(end_line - start_line + 1)
    ELSE IF overflow_checks THEN None ELSE Some(USIZE_MAX)

\* What a call did: the content it wrote to file_path (None: no write), what
\* it did to the session file, and what it returned.
KeepSession == [op |-> "keep"]
SaveSession(session) == [op |-> "save", session |-> session]
Outcome(written, session_op, response) ==
    [written |-> written, session_op |-> session_op, response |-> response]
Rejected(response) == Outcome(None, KeepSession, response)

PreconditionFailed(file_path, mismatches) ==
    [kind |-> "result", ok |-> FALSE, error |-> "precondition_failed",
     file_path |-> file_path, mismatches |-> mismatches]

WritePayloadTooLargeAccepted(file_path, replacement_size) ==
    [kind |-> "result", ok |-> TRUE, error |-> "none",
     file_path |-> file_path, observed_bytes |-> replacement_size,
     limit_bytes |-> MAX_MCP_WRITE_REPLACEMENT_BYTES]

\* The body of a refused oversized replacement (lines 183-194, 299-310).
WritePayloadTooLarge(file_path, replacement_size) ==
    [kind |-> "result", ok |-> FALSE, error |-> "payload_too_large",
     file_path |-> file_path, observed_bytes |-> replacement_size,
     limit_bytes |-> MAX_MCP_WRITE_REPLACEMENT_BYTES]

\* write_session_path (lines 449-457): the characters of the id that survive.
AsciiAlphanumeric ==
    {"0", "1", "2", "3", "4", "5", "6", "7", "8", "9",
     "a", "b", "c", "d", "e", "f", "g", "h", "i", "j", "k", "l", "m",
     "n", "o", "p", "q", "r", "s", "t", "u", "v", "w", "x", "y", "z",
     "A", "B", "C", "D", "E", "F", "G", "H", "I", "J", "K", "L", "M",
     "N", "O", "P", "Q", "R", "S", "T", "U", "V", "W", "X", "Y", "Z"}
write_session_path(continuation_id) ==
    SelectSeq(continuation_id, LAMBDA c : c \in AsciiAlphanumeric \cup {"-", "_"})

RemoveSessionNever == [op |-> "keep"]

\* std::fs::remove_file(&session_path) after the final chunk (line 430)
RemoveSession == [op |-> "remove"]

AccumulatePrepending(replacement_accumulated, replacement_chunk) ==
    replacement_chunk \o replacement_accumulated

\* session.replacement_accumulated.push_str(replacement_chunk) (line 386)
Accumulate(replacement_accumulated, replacement_chunk) ==
    replacement_accumulated \o replacement_chunk

\* The tail of write_code_chunked (lines 386-446), from the session on.
ApplyChunk(disk, session, arguments, chunk_index, is_final_chunk, overflow_checks) ==
    LET staged == [session EXCEPT
                     !.replacement_accumulated = Accumulate(@, arguments.replacement),
                     !.next_chunk_index = Min(chunk_index + 1, USIZE_MAX)]
        original_lines == Lines(Unwrap(disk[arguments.file_path]))
        new_lines == Splice(original_lines, arguments.start_line, arguments.end_line,
                            ReplacementLines(staged.replacement_accumulated), overflow_checks)
        new_content == NewContent(Unwrap(new_lines), staged.had_trailing_newline)
        replaced == ReplacedLineCount(arguments.start_line, arguments.end_line, overflow_checks)
    IN IF ~is_final_chunk
       THEN Outcome(None, SaveSession(staged),
                    [kind |-> "result", ok |-> TRUE, file_path |-> arguments.file_path,
                     received_bytes |-> Len(arguments.replacement),
                     next_chunk_index |-> staged.next_chunk_index, completed |-> FALSE])
       ELSE IF disk[arguments.file_path] = None THEN Rejected(Err("io"))
       ELSE IF new_lines = None THEN Rejected(Panic)
       ELSE IF replaced = None THEN Outcome(Some(new_content), RemoveSession, Panic)
       ELSE Outcome(Some(new_content), RemoveSession,
                    [kind |-> "result", ok |-> TRUE, file_path |-> arguments.file_path,
                     start_line |-> arguments.start_line, end_line |-> arguments.end_line,
                     replaced_line_count |-> Unwrap(replaced),
                     new_line_count |-> Len(ReplacementLines(staged.replacement_accumulated)),
                     file_hash_before |-> staged.file_hash_before,
                     file_hash_after |-> Sha256(new_content),
                     next_chunk_index |-> staged.next_chunk_index, completed |-> TRUE])

SessionMatchesButIndex(loaded, arguments, chunk_index) ==
    /\ loaded.file_path = arguments.file_path
    /\ loaded.start_line = arguments.start_line
    /\ loaded.end_line = arguments.end_line

\* Whether a later chunk continues the loaded session (lines 360-364).
SessionMatches(loaded, arguments, chunk_index) ==
    /\ loaded.file_path = arguments.file_path
    /\ loaded.start_line = arguments.start_line
    /\ loaded.end_line = arguments.end_line
    /\ loaded.next_chunk_index = chunk_index

\* write_code_chunked (lines 282-447); sessions maps a session path to the
\* session stored there, if any.
write_code_chunked(disk, sessions, arguments, overflow_checks) ==
    LET chunk_index == IF IsSome(arguments.chunk_index) THEN Unwrap(arguments.chunk_index) ELSE 0
        is_final_chunk == arguments.is_final_chunk = Some(TRUE)
        session_path == write_session_path(Unwrap(arguments.continuation_id))
        original_content == Unwrap(disk[arguments.file_path])
        original_hash == Sha256(original_content)
        original_lines == Lines(original_content)
        conflict == check_preconditions(arguments.precondition, original_lines, original_hash,
                                        arguments.start_line, arguments.end_line, overflow_checks)
        opened == [continuation_id |-> Unwrap(arguments.continuation_id),
                   file_path |-> arguments.file_path,
                   start_line |-> arguments.start_line,
                   end_line |-> arguments.end_line,
                   file_hash_before |-> original_hash,
                   had_trailing_newline |-> EndsWithNL(original_content),
                   replacement_accumulated |-> <<>>,
                   next_chunk_index |-> 0]
        loaded == Unwrap(sessions[session_path])
    IN IF Len(arguments.replacement) > MAX_MCP_WRITE_REPLACEMENT_BYTES
       THEN Rejected(WritePayloadTooLarge(arguments.file_path, Len(arguments.replacement)))
       ELSE IF chunk_index = 0
       THEN IF disk[arguments.file_path] = None THEN Rejected(Err("io"))
            ELSE IF original_lines = <<>>
            THEN Rejected(Err("Cannot apply line-range write to empty file"))
            ELSE IF arguments.end_line > Len(original_lines)
            THEN Rejected(Err("Invalid range: end_line exceeds file line count"))
            ELSE IF conflict.panicked THEN Rejected(Panic)
            ELSE IF conflict.mismatches # <<>>
            THEN Rejected(PreconditionFailed(arguments.file_path, conflict.mismatches))
            ELSE ApplyChunk(disk, opened, arguments, chunk_index, is_final_chunk,
                            overflow_checks)
       ELSE IF sessions[session_path] = None
       THEN Rejected(Err("Missing write continuation session; restart with chunk_index=0"))
       ELSE IF ~SessionMatches(loaded, arguments, chunk_index)
       THEN Rejected([kind |-> "result", ok |-> FALSE, error |-> "invalid_continuation_state",
                      expected |-> <<loaded.file_path, loaded.start_line, loaded.end_line,
                                     loaded.next_chunk_index>>,
                      received |-> <<arguments.file_path, arguments.start_line,
                                     arguments.end_line, chunk_index>>])
       ELSE ApplyChunk(disk, loaded, arguments, chunk_index, is_final_chunk, overflow_checks)

\* write_code (lines 163-268)
write_code(disk, sessions, arguments, overflow_checks) ==
    LET original_content == Unwrap(disk[arguments.file_path])
        original_hash == Sha256(original_content)
        original_lines == Lines(original_content)
        conflict == check_preconditions(arguments.precondition, original_lines, original_hash,
                                        arguments.start_line, arguments.end_line, overflow_checks)
        replacement_lines == ReplacementLines(arguments.replacement)
        new_lines == Splice(original_lines, arguments.start_line, arguments.end_line,
                            replacement_lines, overflow_checks)
        new_content == NewContent(Unwrap(new_lines), EndsWithNL(original_content))
    IN IF IsSome(arguments.continuation_id)
       THEN write_code_chunked(disk, sessions, arguments, overflow_checks)
       ELSE IF Len(arguments.replacement) > MAX_MCP_WRITE_REPLACEMENT_BYTES
       THEN Rejected(WritePayloadTooLarge(arguments.file_path, Len(arguments.replacement)))
       ELSE IF \/ arguments.start_line = 0
               \/ arguments.end_line = 0
               \/ arguments.start_line > arguments.end_line
       THEN Rejected(Err("Invalid range: start_line and end_line must be >= 1 and start_line <= end_line"))
       ELSE IF disk[arguments.file_path] = None THEN Rejected(Err("io"))
       ELSE IF original_lines = <<>>
       THEN Rejected(Err("Cannot apply line-range write to empty file"))
       ELSE IF arguments.end_line > Len(original_lines)
       THEN Rejected(Err("Invalid range: end_line exceeds file line count"))
       ELSE IF conflict.panicked THEN Rejected(Panic)
       ELSE IF conflict.mismatches # <<>>
       THEN Rejected(PreconditionFailed(arguments.file_path, conflict.mismatches))
       ELSE IF new_lines = None THEN Rejected(Panic)
       ELSE Outcome(Some(new_content), KeepSession,
                    [kind |-> "result", ok |-> TRUE, file_path |-> arguments.file_path,
                     start_line |-> arguments.start_line, end_line |-> arguments.end_line,
                     replaced_line_count |-> arguments.end_line - arguments.start_line + 1,
                     new_line_count |-> Len(replacement_lines),
                     file_hash_before |-> original_hash,
                     file_hash_after |-> Sha256(new_content)])

\* The calls made to write_code, the files they are made on, and edits of the
\* target by other programs.
PATH_B == "missing.rs"
WritePaths == {PATH_A, PATH_B}
MaxWriteCalls == 3

WriteFileContents == { <<"x", NL, "y", NL>>, <<"x", NL, "y">>, <<>> }
EditedFileContents == { <<"y", NL>>, <<>> }

ContinuationIds == { <<"s", "1">>, <<"s", "/", "1">> }
SessionPaths == { write_session_path(id) : id \in ContinuationIds }

NoPrecondition ==
    [expected_file_hash |-> None, expected_start_line_text |-> None,
     expected_end_line_text |-> None]

WritePreconditions ==
    { None,
      Some([NoPrecondition EXCEPT !.expected_file_hash = Some(Sha256(<<"x", NL, "y", NL>>))]),
      Some([NoPrecondition EXCEPT !.expected_file_hash = Some(Sha256(<<"q">>))]),
      Some([NoPrecondition EXCEPT !.expected_start_line_text = Some(<<"x">>)]),
      Some([expected_file_hash |-> Some(Sha256(<<"x", NL, "y">>)),
            expected_start_line_text |-> Some(<<"x">>),
            expected_end_line_text |-> Some(<<"x">>)]) }

\* The text of n characters c.
RECURSIVE Repeat(_, _)
Repeat(c, n) ==
    IF n = 0 THEN <<>>
    ELSE LET half == Repeat(c, n \div 2)
         IN half \o half \o (IF n % 2 = 1 THEN <<c>> ELSE <<>>)

OversizedReplacement == Repeat("z", MAX_MCP_WRITE_REPLACEMENT_BYTES + 1)

WriteReplacements == { <<>>, <<"z", NL, "w">> }

WriteRanges == { <<0, 1>>, <<1, 0>>, <<2, 1>>, <<1, 1>>, <<1, 2>>, <<2, 2>>, <<1, 3>> }

\* The arguments of one call; chunking is None or <<continuation_id,
\* chunk_index, is_final_chunk>>.
WriteCall(file_path, range, replacement, precondition, chunking) ==
    [file_path |-> file_path,
     start_line |-> range[1],
     end_line |-> range[2],
     replacement |-> replacement,
     precondition |-> precondition,
     continuation_id |-> IF chunking = None THEN None ELSE Some(chunking[1]),
     chunk_index |-> IF chunking = None THEN None ELSE chunking[2],
     is_final_chunk |-> IF chunking = None THEN None ELSE chunking[3]]

\* Calls on the target with the plain id, on the caller's range or on line 1;
\* calls with an oversized replacement, on a missing path and with the id that
\* needs sanitising.
WriteArgs(own_range) ==
    { WriteCall(PATH_A, range, replacement, precondition, chunking) :
        range \in {own_range, <<1, 1>>}, replacement \in WriteReplacements,
        precondition \in WritePreconditions,
        chunking \in {None} \cup ({<<"s", "1">>} \X {None, Some(1), Some(2)} \X {None, Some(TRUE)}) }
    \cup
    { WriteCall(PATH_A, own_range, OversizedReplacement, precondition, chunking) :
        precondition \in {None, Some([NoPrecondition EXCEPT
                                         !.expected_file_hash = Some(Sha256(<<"q">>))])},
        chunking \in {None, <<<<"s", "1">>, None, None>>, <<<<"s", "1">>, Some(1), Some(TRUE)>>} }
    \cup
    { WriteCall(PATH_B, own_range, <<"z">>, None, chunking) :
        chunking \in {None} \cup ({<<"s", "1">>} \X {None, Some(1)} \X {None, Some(TRUE)}) }
    \cup
    { WriteCall(PATH_A, own_range, <<"z">>, None, chunking) :
        chunking \in {<<"s", "/", "1">>} \X {None, Some(1)} \X {None, Some(TRUE)} }

NotCalled == [called |-> FALSE]

StartWrite ==
    /\ wrDisk \in {[p \in WritePaths |-> IF p = PATH_A THEN Some(c) ELSE None] :
                      c \in WriteFileContents}
    /\ wrSessions = [sp \in SessionPaths |-> None]
    /\ wrOverflowChecks \in BOOLEAN
    /\ wrResponse = [kind |-> "none"]
    /\ wrRange \in WriteRanges
    /\ wrCalls = MaxWriteCalls
    /\ wrLast = NotCalled
    /\ wrTrace = <<>>

IdleWrite ==
    /\ wrDisk = [p \in WritePaths |-> None]
    /\ wrSessions = [sp \in SessionPaths |-> None]
    /\ wrOverflowChecks = FALSE
    /\ wrResponse = [kind |-> "none"]
    /\ wrRange = <<1, 1>>
    /\ wrCalls = 0
    /\ wrLast = NotCalled
    /\ wrTrace = <<>>

\* Whether a precondition the call supplies differs from the file as it is.
SuppliedPreconditionMismatches(disk, arguments) ==
    /\ IsSome(arguments.precondition)
    /\ IsSome(disk[arguments.file_path])
    /\ LET p == Unwrap(arguments.precondition)
           content == Unwrap(disk[arguments.file_path])
           lines == Lines(content)
       IN \/ /\ IsSome(p.expected_file_hash)
             /\ Unwrap(p.expected_file_hash) # Sha256(content)
          \/ /\ IsSome(p.expected_start_line_text)
             /\ arguments.start_line \in 1..Len(lines)
             /\ Unwrap(p.expected_start_line_text) # lines[arguments.start_line]
          \/ /\ IsSome(p.expected_end_line_text)
             /\ arguments.end_line \in 1..Len(lines)
             /\ Unwrap(p.expected_end_line_text) # lines[arguments.end_line]

\* Whether the call names a non-empty file, a range inside it, a replacement
\* within the size limit and, past chunk 0, the session as it is stored.
WellFormedWrite(disk, sessions, arguments) ==
    /\ IsSome(disk[arguments.file_path])
    /\ 1 <= arguments.start_line
    /\ arguments.start_line <= arguments.end_line
    /\ arguments.end_line <= Len(Lines(Unwrap(disk[arguments.file_path])))
    /\ Len(arguments.replacement) <= MAX_MCP_WRITE_REPLACEMENT_BYTES
    /\ (IsSome(arguments.continuation_id) /\ IsSome(arguments.chunk_index)) =>
          LET sp == write_session_path(Unwrap(arguments.continuation_id))
          IN /\ IsSome(sessions[sp])
             /\ Unwrap(sessions[sp]).file_path = arguments.file_path
             /\ Unwrap(sessions[sp]).start_line = arguments.start_line
             /\ Unwrap(sessions[sp]).end_line = arguments.end_line
             /\ Unwrap(sessions[sp]).next_chunk_index = Unwrap(arguments.chunk_index)

\* One write_code call, from its arguments to its effects on the file and the
\* session file.  A call that changed neither is the last one followed (the
\* calls after it would start from the same file and sessions), and a call
\* that wrote the file is followed by one more.
WriteCode ==
    /\ wrCalls > 0
    /\ \E arguments \in WriteArgs(wrRange) :
         LET o == write_code(wrDisk, wrSessions, arguments, wrOverflowChecks)
             sp == write_session_path(Unwrap(arguments.continuation_id))
         IN /\ wrDisk' = IF o.written = None THEN wrDisk
                          ELSE [wrDisk EXCEPT ![arguments.file_path] = o.written]
            /\ wrSessions' = IF o.session_op.op = "save"
                              THEN [wrSessions EXCEPT ![sp] = Some(o.session_op.session)]
                              ELSE IF o.session_op.op = "remove"
                              THEN [wrSessions EXCEPT ![sp] = None]
                              ELSE wrSessions
            /\ wrResponse' = o.response
            /\ wrLast' = [called |-> TRUE,
                          before |-> wrDisk,
                          file_path |-> arguments.file_path,
                          mismatch |-> SuppliedPreconditionMismatches(wrDisk, arguments),
                          well_formed |-> WellFormedWrite(wrDisk, wrSessions, arguments),
                          chunked |-> IsSome(arguments.continuation_id),
                          chunk_index |-> IF IsSome(arguments.chunk_index)
                                          THEN Unwrap(arguments.chunk_index) ELSE 0,
                          is_final_chunk |-> arguments.is_final_chunk = Some(TRUE)]
            /\ wrCalls' = IF o.written = None /\ o.session_op.op = "keep" THEN 0
                           ELSE IF o.written # None THEN Min(wrCalls - 1, 1)
                           ELSE wrCalls - 1
    /\ UNCHANGED <<wrOverflowChecks, wrRange, wrTrace, nonWrVars>>

\* Another program rewrites the target file between two calls.
ExternalEdit ==
    /\ wrCalls > 0
    /\ \E c \in EditedFileContents :
         /\ wrDisk[PATH_A] # Some(c)
         /\ wrDisk' = [wrDisk EXCEPT ![PATH_A] = Some(c)]
    /\ wrResponse' = [kind |-> "none"]
    /\ wrLast' = NotCalled
    /\ UNCHANGED <<wrSessions, wrOverflowChecks, wrRange, wrCalls, wrTrace, nonWrVars>>

\* The caller's continuation loop: each call passes the previous response's
\* continuation_start_line and repeats the other arguments.
MaxReadText == 3
ReadAlphabet == {"x", " ", NL}

ReadFiles ==
    {None}
    \cup {Some(t) : t \in TextsUpTo(ReadAlphabet, MaxReadText)}
    \cup {Some(<<"x", " ", "x", NL, "x", NL, NL, "x", "x", " ", "x", NL>>),
          Some(<<"x", CR, NL, "x", CR, NL>>),
          Some(<<"x", NL, " ", "x", NL, "x", NL, "x">>)}

ReadArgs ==
    [start_line : OptionOf({0, 1, 2, 3, 5}),
     end_line : OptionOf({0, 1, 2, 4}),
     max_lines : OptionOf({0, 1, 2}),
     max_bytes : OptionOf({0, 1, 3, MAX_MCP_READ_BYTES + 1}),
     max_tokens : OptionOf({0, 1, 2}),
     continuation_start_line : {None}]

StartRead ==
    /\ rdFile \in ReadFiles
    /\ rdArgs \in ReadArgs
    /\ rdCursor = None
    /\ rdPieces = <<>>
    /\ rdServed = <<>>
    /\ rdStatus = "reading"
    /\ rdTool = "read_code"
    /\ rdResponse = None

IdleRead ==
    /\ rdFile = None /\ rdArgs = None /\ rdCursor = None
    /\ rdPieces = <<>> /\ rdServed = <<>> /\ rdStatus = "idle"
    /\ rdTool = "read_code" /\ rdResponse = None

\* One call of the loop and the caller's bookkeeping of its response.
ReadCall ==
    /\ rdStatus = "reading"
    /\ LET response == read_code(rdFile, [rdArgs EXCEPT !.continuation_start_line = rdCursor])
       IN IF response.kind = "ok"
          THEN /\ rdPieces' = Append(rdPieces, response.content)
               /\ rdServed' = rdServed \o [k \in 1..(response.end_line - response.start_line + 1)
                                              |-> response.start_line + k - 1]
               /\ rdCursor' = response.continuation_start_line
               /\ rdStatus' = IF response.continuation_start_line = None
                               THEN "done" ELSE "reading"
          ELSE /\ rdStatus' = IF response.kind = "payload_too_large"
                               THEN "too_large" ELSE "error"
               /\ UNCHANGED <<rdPieces, rdServed, rdCursor>>
    /\ UNCHANGED <<rdFile, rdArgs, rdTool, rdResponse, nonRdVars>>

-----------------------------------------------------------------------------
(* Watcher lock: src/src/watcher/mod.rs, acquire_watcher_lock and Drop *)

Digits == <<"0", "1", "2", "3", "4", "5", "6", "7", "8", "9">>

\* format!("{}", pid)
RECURSIVE FormatU32(_)
FormatU32(n) ==
    IF n < 10 THEN <<Digits[n + 1]>> ELSE FormatU32(n \div 10) \o <<Digits[(n % 10) + 1]>>

DigitValue(c) == (CHOOSE d \in 1..10 : Digits[d] = c) - 1

\* str::parse::<u32>() on decimal digits: None for the empty string and for
\* anything that is not a digit.
RECURSIVE ParseDigits(_)
ParseDigits(text) ==
    IF Len(text) = 1 THEN DigitValue(text[1])
    ELSE 10 * ParseDigits(SubSeq(text, 1, Len(text) - 1)) + DigitValue(text[Len(text)])
ParseU32(text) ==
    IF text # <<>> /\ \A i \in 1..Len(text) : \E d \in 1..10 : Digits[d] = text[i]
    THEN Some(ParseDigits(text)) ELSE None

\* The processes that try to become the watcher of the repository, and the
\* PID a lock file left behind by a dead process records.
WatcherPids == {7, 12}
DeadPid == 3

\* registry::is_process_alive (src/src/watcher/registry.rs)
is_process_alive(pid) == pid \in lkAlive

\* What a stale lock file can hold at the start: nothing at all (no file), the
\* PID of a dead process, or text that is not a PID.
LockFilesAtStart ==
    { None,
      Some([inode |-> 0, content |-> FormatU32(DeadPid) \o <<NL>>]),
      Some([inode |-> 0, content |-> <<"x">>]) }

StartLock ==
    /\ lkFile \in LockFilesAtStart
    /\ lkAlive = WatcherPids
    /\ lkPc = [p \in WatcherPids |-> "exists"]
    /\ lkHandle = [p \in WatcherPids |-> None]
    /\ lkInodes = 0

IdleLock ==
    /\ lkFile = None
    /\ lkAlive = {}
    /\ lkPc = [p \in WatcherPids |-> "idle"]
    /\ lkHandle = [p \in WatcherPids |-> None]
    /\ lkInodes = 0

Running(p, pc) == p \in lkAlive /\ lkPc[p] = pc

\* lock_path.exists() (line 451)
LockExists(p) ==
    /\ Running(p, "exists")
    /\ lkPc' = [lkPc EXCEPT ![p] = IF IsSome(lkFile) THEN "read" ELSE "create"]
    /\ UNCHANGED <<lkFile, lkAlive, lkHandle, lkInodes, nonLkVars>>

JudgedStaleWhateverThePid == TRUE

\* Whether the lock file is judged stale (lines 452-458): it cannot be read,
\* it holds no PID, or the PID is not alive.
JudgedStale ==
    IF lkFile = None THEN TRUE
    ELSE LET pid == ParseU32(Trim(Unwrap(lkFile).content))
         IN IF pid = None THEN TRUE ELSE ~is_process_alive(Unwrap(pid))

\* read_to_string, parse and liveness probe (lines 452-467)
ReadAndProbe(p) ==
    /\ Running(p, "read")
    /\ lkPc' = [lkPc EXCEPT ![p] = IF JudgedStale THEN "remove" ELSE "failed"]
    /\ UNCHANGED <<lkFile, lkAlive, lkHandle, lkInodes, nonLkVars>>

\* remove_file, its error ignored (line 461)
RemoveStale(p) ==
    /\ Running(p, "remove")
    /\ lkFile' = None
    /\ lkPc' = [lkPc EXCEPT ![p] = "create"]
    /\ UNCHANGED <<lkAlive, lkHandle, lkInodes, nonLkVars>>

\* OpenOptions::new().create_new(true).write(true).open (lines 470-487)
CreateNew(p) ==
    /\ Running(p, "create")
    /\ IF IsSome(lkFile)
       THEN /\ lkPc' = [lkPc EXCEPT ![p] = "failed"]
            /\ UNCHANGED <<lkFile, lkHandle, lkInodes, nonLkVars>>
       ELSE /\ lkInodes' = lkInodes + 1
            /\ lkFile' = Some([inode |-> lkInodes + 1, content |-> <<>>])
            /\ lkHandle' = [lkHandle EXCEPT ![p] = Some(lkInodes + 1)]
            /\ lkPc' = [lkPc EXCEPT ![p] = "write"]
    /\ UNCHANGED <<lkAlive, nonLkVars>>

\* writeln!(file, "{}", pid) on the handle the open returned (lines 476-478):
\* it reaches the lock file only while the path still names that inode.
WritePid(p) ==
    /\ Running(p, "write")
    /\ lkFile' = IF IsSome(lkFile) /\ Some(Unwrap(lkFile).inode) = lkHandle[p]
                  THEN Some([Unwrap(lkFile) EXCEPT !.content = @ \o FormatU32(p) \o <<NL>>])
                  ELSE lkFile
    /\ lkPc' = [lkPc EXCEPT ![p] = "held"]
    /\ UNCHANGED <<lkAlive, lkHandle, lkInodes, nonLkVars>>

\* Drop for FileWatcher (lines 438-444): removes whatever is at lock_path.
DropWatcher(p) ==
    /\ Running(p, "held")
    /\ lkFile' = None
    /\ lkPc' = [lkPc EXCEPT ![p] = "dropped"]
    /\ UNCHANGED <<lkAlive, lkHandle, lkInodes, nonLkVars>>

\* The process is killed: nothing of it runs again, Drop included.
KillProcess(p) ==
    /\ p \in lkAlive
    /\ lkAlive' = lkAlive \ {p}
    /\ UNCHANGED <<lkFile, lkPc, lkHandle, lkInodes, nonLkVars>>

NextLock ==
    \E p \in WatcherPids :
        \/ LockExists(p)
        \/ ReadAndProbe(p)
        \/ RemoveStale(p)
        \/ CreateNew(p)
        \/ WritePid(p)
        \/ DropWatcher(p)
        \/ KillProcess(p)

-----------------------------------------------------------------------------
(* Paths, file metadata and symbols: src/src/index/scanner.rs,             *)
(* src/src/db/models.rs, src/src/symbols/mod.rs                            *)

Capitals == <<"A", "B", "C", "D", "E", "F", "G", "H", "I", "J", "K", "L", "M",
              "N", "O", "P", "Q", "R", "S", "T", "U", "V", "W", "X", "Y", "Z">>
Smalls == <<"a", "b", "c", "d", "e", "f", "g", "h", "i", "j", "k", "l", "m",
            "n", "o", "p", "q", "r", "s", "t", "u", "v", "w", "x", "y", "z">>

\* str::to_lowercase on ASCII text
ToLowercase(s) ==
    [i \in 1..Len(s) |->
        IF \E k \in 1..26 : Capitals[k] = s[i]
        THEN Smalls[CHOOSE k \in 1..26 : Capitals[k] = s[i]] ELSE s[i]]

\* str::split(c): one piece more than there are c.
SplitOn(s, c) ==
    LET at == PositionsOf(s, c)
        first(k) == IF k = 1 THEN 1 ELSE at[k - 1] + 1
        last(k) == IF k <= Len(at) THEN at[k] - 1 ELSE Len(s)
    IN [k \in 1..(Len(at) + 1) |-> SubSeq(s, first(k), last(k))]

StartsWith(s, prefix) == Len(prefix) <= Len(s) /\ SubSeq(s, 1, Len(prefix)) = prefix
EndsWith(s, suffix) ==
    Len(suffix) <= Len(s) /\ SubSeq(s, Len(s) - Len(suffix) + 1, Len(s)) = suffix

\* Path::components() of a repository-relative path: its Normal components.
Components(path) == SelectSeq(SplitOn(path, "/"), LAMBDA name : name # <<>>)

\* Path::extension(): what follows the last "." of the file name, unless the
\* name has no "." or only starts with one.
Extension(path) ==
    LET names == Components(path)
        name == names[Len(names)]
        dots == PositionsOf(name, ".")
    IN IF names = <<>> \/ dots = <<>> \/ dots[Len(dots)] = 1 THEN None
       ELSE Some(SubSeq(name, dots[Len(dots)] + 1, Len(name)))

\* FileMetadata::detect_language
detect_language(path) ==
    IF Extension(path) = None THEN None
    ELSE LET ext == ToLowercase(Unwrap(Extension(path)))
         IN Some(CASE ext = <<"r", "s">> -> "rust"
                   [] ext = <<"g", "o">> -> "go"
                   [] ext = <<"j", "s">> -> "javascript"
                   [] ext = <<"t", "s">> -> "typescript"
                   [] ext = <<"p", "y">> -> "python"
                   [] ext = <<"s", "o", "l">> -> "solidity"
                   [] ext = <<"j", "s", "o", "n">> -> "json"
                   [] ext = <<"m", "d">> -> "markdown"
                   [] ext \in {<<"y", "a", "m", "l">>, <<"y", "m", "l">>} -> "yaml"
                   [] ext = <<"t", "o", "m", "l">> -> "toml"
                   [] OTHER -> "unknown")

\* FileMetadata::from_path for a file that exists: its size in bytes and its
\* modification time in whole seconds.
from_path(path, file) ==
    [file_path |-> path, file_size |-> Len(file.content),
     last_modified |-> file.mtime, language |-> detect_language(path)]

FunctionKeywords ==
    { <<"f", "n">>, <<"d", "e", "f">>, <<"f", "u", "n", "c">>,
      <<"f", "u", "n", "c", "t", "i", "o", "n">> }
IdentStart == (AsciiAlphanumeric \ {Digits[d] : d \in 1..10}) \cup {"_"}
IdentChars == AsciiAlphanumeric \cup {"_"}

\* The first index from k on whose character is not in the set.
SkipWhile(line, k, set) ==
    CHOOSE j \in k..(Len(line) + 1) :
        /\ \A i \in k..(j - 1) : line[i] \in set
        /\ j = Len(line) + 1 \/ line[j] \notin set

\* function_pattern with its keyword at index k: (?i) keyword, \s+, then the
\* captured name [a-zA-Z_][a-zA-Z0-9_]*.  Some([name, end]) or None.
FunctionMatchAt(line, k) ==
    LET names(w) == SkipWhile(line, k + Len(w), Whitespace)
        words == {w \in FunctionKeywords :
                    /\ k + Len(w) - 1 <= Len(line)
                    /\ ToLowercase(SubSeq(line, k, k + Len(w) - 1)) = w
                    /\ names(w) > k + Len(w)
                    /\ names(w) <= Len(line)
                    /\ line[names(w)] \in IdentStart}
    IN IF words = {} THEN None
       ELSE LET from == names(CHOOSE w \in words : TRUE)
                end == SkipWhile(line, from, IdentChars) - 1
            IN Some([name |-> SubSeq(line, from, end), end |-> end])

\* function_pattern.captures_iter(line): the matches from left to right, none
\* overlapping the one before it.  A match starts at the start of the line or
\* on the whitespace before the keyword; from is the first index it may use.
RECURSIVE FunctionNames(_, _, _)
FunctionNames(line, k, from) ==
    IF k > Len(line) THEN <<>>
    ELSE LET anchored == IF k = 1 THEN from = 1
                         ELSE k - 1 >= from /\ line[k - 1] \in Whitespace
             m == IF anchored THEN FunctionMatchAt(line, k) ELSE None
         IN IF m = None THEN FunctionNames(line, k + 1, from)
            ELSE <<Unwrap(m).name>>
                 \o FunctionNames(line, Unwrap(m).end + 1, Unwrap(m).end + 1)

\* detect_in_chunk.  The files of this model are written in an alphabet in
\* which only function_pattern can match; the other six patterns need
\* letters it lacks.
detect_in_chunk(chunk, file_path, start_line) ==
    LET lines == Lines(chunk)
        found(i) == FunctionNames(lines[i], 1, 1)
        symbols(i) == [k \in 1..Len(found(i)) |->
                          [symbol_name |-> found(i)[k], file_path |-> file_path,
                           line_number |-> start_line + i - 1,
                           symbol_type |-> "function"]]
        upto[i \in 0..Len(lines)] == IF i = 0 THEN <<>> ELSE upto[i - 1] \o symbols(i)
    IN upto[Len(lines)]

\* The symbols of all chunks, in order (all_symbols, engine.rs lines 132-146).
RECURSIVE SymbolsOf(_, _)
SymbolsOf(chunks, file_path) ==
    IF chunks = <<>> THEN <<>>
    ELSE detect_in_chunk(chunks[1].content, file_path, chunks[1].start_line)
         \o SymbolsOf(Tail(chunks), file_path)

\* The files of the modelled repository: a.rs at the root and g/b.rs.
IX_A == <<"a", ".", "r", "s">>
IX_B == <<"g", "/", "b", ".", "r", "s">>
IxPaths == {IX_A, IX_B}

\* What a file can hold: "fn a\n", "x\nfn n" and nothing.
IxContents ==
    { <<"f", "n", " ", "a", NL>>, <<"x", NL, "f", "n", " ", "n">>, <<>> }
MaxMtime == 2
IxFiles == [content : IxContents, mtime : 1..MaxMtime]

-----------------------------------------------------------------------------
(* Metadata store: src/src/db/mod.rs.  A store is [files, chunks, symbols]. *)

POOL_MAX_SIZE == 10

\* PRAGMA foreign_keys of pooled connection conn.  init_schema turns it ON on
\* the connection it obtained (line 35), here connection 1; the pragma is per
\* connection, so every other one keeps the default of the SQLite build.
foreign_keys(conn) == conn = 1 \/ dbFkDefault

\* The foreign_keys setting a call can meet on the connection pool.get() gives.
PooledForeignKeys == {foreign_keys(conn) : conn \in 1..POOL_MAX_SIZE}

Store == [files |-> dbFiles, chunks |-> dbChunks, symbols |-> dbSymbols]

HasFileRow(db, file_path) == \E f \in db.files : f.file_path = file_path

\* DELETE FROM files WHERE file_path = ?1, once per path: ON DELETE CASCADE
\* removes the chunk and symbol rows of a deleted file row where the
\* connection enforces foreign keys.
DeleteFileRows(db, file_paths, enforced) ==
    LET deleted == {f.file_path : f \in db.files} \cap file_paths
        kept(rows) == IF enforced
                      THEN SelectSeq(rows, LAMBDA r : r.file_path \notin deleted)
                      ELSE rows
    IN [files |-> {f \in db.files : f.file_path \notin deleted},
        chunks |-> kept(db.chunks), symbols |-> kept(db.symbols)]

\* INSERT OR REPLACE INTO files: the row that holds the same file_path is
\* deleted first.
insert_file(db, file, enforced) ==
    [DeleteFileRows(db, {file.file_path}, enforced) EXCEPT !.files = @ \cup {file}]

\* One transaction: a row whose file_path has no file row fails the foreign
\* key where it is enforced, and the batch is rolled back.  [db, ok]
insert_chunks_batch(db, chunks, enforced) ==
    IF enforced /\ \E k \in 1..Len(chunks) : ~HasFileRow(db, chunks[k].file_path)
    THEN [db |-> db, ok |-> FALSE]
    ELSE [db |-> [db EXCEPT !.chunks = @ \o chunks], ok |-> TRUE]

insert_symbols_batch(db, symbols, enforced) ==
    IF enforced /\ \E k \in 1..Len(symbols) : ~HasFileRow(db, symbols[k].file_path)
    THEN [db |-> db, ok |-> FALSE]
    ELSE [db |-> [db EXCEPT !.symbols = @ \o symbols], ok |-> TRUE]

delete_file_chunks_keeping(db, file_path) == db

delete_file_chunks(db, file_path) ==
    [db EXCEPT !.chunks = SelectSeq(@, LAMBDA r : r.file_path # file_path)]

delete_file_symbols(db, file_path) ==
    [db EXCEPT !.symbols = SelectSeq(@, LAMBDA r : r.file_path # file_path)]

delete_file(db, file_path, enforced) == DeleteFileRows(db, {file_path}, enforced)

delete_files_bulk(db, file_paths, enforced) == DeleteFileRows(db, file_paths, enforced)

needs_reindex_always(db, file_path, current_modified) == TRUE

\* True when the file has no row or its stored last_modified differs.
needs_reindex(db, file_path, current_modified) ==
    \A f \in db.files : f.file_path = file_path => f.last_modified # current_modified

clear_all(db) == [files |-> {}, chunks |-> <<>>, symbols |-> <<>>]

\* get_stats, and the documents of the full-text index, buffered or committed
Counts ==
    [total_files |-> Cardinality(dbFiles), total_chunks |-> Len(dbChunks),
     total_symbols |-> Len(dbSymbols),
     pending |-> Len(ftPending), committed |-> Len(ftCommitted)]

\* Rows of one file
RowsOf(rows, file_path) == SelectSeq(rows, LAMBDA r : r.file_path = file_path)

-----------------------------------------------------------------------------
(* Scanner and ignore rules: src/src/index/scanner.rs *)

DEFAULT_IGNORED_DIRS ==
    { <<".", "g", "i", "t">>,
      <<"n", "o", "d", "e", "_", "m", "o", "d", "u", "l", "e", "s">>,
      <<"t", "a", "r", "g", "e", "t">>, <<"d", "i", "s", "t">>,
      <<"b", "u", "i", "l", "d">>, <<"v", "e", "n", "d", "o", "r">>,
      <<".", "f", "l", "a", "s", "h", "g", "r", "e", "p">> }

DEFAULT_EXTENSIONS ==
    { <<"g", "o">>, <<"r", "s">>, <<"j", "s">>, <<"t", "s">>, <<"p", "y">>,
      <<"s", "o", "l">>, <<"j", "s", "o", "n">>, <<"m", "d">>,
      <<"y", "a", "m", "l">>, <<"y", "m", "l">>, <<"t", "o", "m", "l">> }

\* should_ignore_directory with the default Config, over the components
InIgnoredDirectory(path) ==
    \E k \in 1..Len(Components(path)) : Components(path)[k] \in DEFAULT_IGNORED_DIRS

\* should_index_file with the default Config
should_index_file(path) ==
    /\ IsSome(Extension(path))
    /\ ToLowercase(Unwrap(Extension(path))) \in DEFAULT_EXTENSIONS

\* FlashgrepIgnore::from_file: the patterns of the lines that are neither
\* empty nor comments.
from_file(content) ==
    LET trimmed == [k \in 1..Len(Lines(content)) |-> Trim(Lines(content)[k])]
        rules == SelectSeq(trimmed, LAMBDA line : line # <<>> /\ line[1] # "#")
        parse(line) ==
            LET is_negation == line[1] = "!"
                is_directory_only == line[Len(line)] = "/"
                unsigned == IF is_negation THEN Tail(line) ELSE line
            IN [pattern |-> IF is_directory_only
                            THEN SubSeq(unsigned, 1, Len(unsigned) - 1) ELSE unsigned,
                is_negation |-> is_negation,
                is_directory_only |-> is_directory_only]
    IN [k \in 1..Len(rules) |-> parse(rules[k])]

directory_match(path, pattern) ==
    path = pattern \/ StartsWith(path, pattern \o <<"/">>)

\* glob_match from pattern index pi and path index si on.  "*" at the end
\* matches the rest; elsewhere it consumes the path up to and including the
\* first occurrence of the next pattern character, which the next turn of the
\* loop then matches again as a literal.
RECURSIVE GlobLoop(_, _, _, _)
GlobLoop(path, pattern, pi, si) ==
    IF pi > Len(pattern) THEN si > Len(path)
    ELSE IF pattern[pi] = "*"
    THEN IF pi = Len(pattern) THEN TRUE
         ELSE LET hits == {j \in si..Len(path) : path[j] = pattern[pi + 1]}
                  first == CHOOSE j \in hits : \A h \in hits : j <= h
              IN GlobLoop(path, pattern, pi + 1,
                          IF hits = {} THEN Len(path) + 1 ELSE first + 1)
    ELSE IF pattern[pi] = "?"
    THEN si <= Len(path) /\ GlobLoop(path, pattern, pi + 1, si + 1)
    ELSE /\ si <= Len(path)
         /\ path[si] = pattern[pi]
         /\ GlobLoop(path, pattern, pi + 1, si + 1)

glob_match(path, pattern) == GlobLoop(path, pattern, 1, 1)

match_pattern(path, pattern) ==
    IF \E i \in 1..Len(pattern) : pattern[i] \in {"*", "?"}
    THEN glob_match(path, pattern)
    ELSE IF StartsWith(pattern, <<"/">>)
    THEN \/ path = Tail(pattern)
         \/ StartsWith(path, Tail(pattern) \o <<"/">>)
    ELSE \/ path = pattern
         \/ \E k \in 1..Len(SplitOn(path, "/")) : SplitOn(path, "/")[k] = pattern
         \/ StartsWith(path, pattern \o <<"/">>)
         \/ EndsWith(path, <<"/">> \o pattern)

\* is_ignored: the last pattern that matches decides.
is_ignored(patterns, path) ==
    LET matching == {k \in 1..Len(patterns) :
                        IF patterns[k].is_directory_only
                        THEN directory_match(path, patterns[k].pattern)
                        ELSE match_pattern(path, patterns[k].pattern)}
    IN /\ matching # {}
       /\ ~patterns[CHOOSE k \in matching : \A j \in matching : j <= k].is_negation

\* FileScanner::should_include for a file of this model: small UTF-8 text,
\* so neither oversized nor binary.
should_include(patterns, path) ==
    /\ ~is_ignored(patterns, path)
    /\ ~InIgnoredDirectory(path)
    /\ should_index_file(path)

\* FileScanner::scan: the files on disk that should be included.  The
\* scanner loads .flashgrepignore when it is made (line 82).
scan(disk, ignore_file) ==
    {path \in DOMAIN disk :
        IsSome(disk[path]) /\ should_include(from_file(ignore_file), path)}

\* The texts .flashgrepignore can hold: a comment only, "a.rs", "g/", and
\* "g/" taken back by "!g/".
IgnoreFiles ==
    { <<"#", NL>>,
      <<"a", ".", "r", "s", NL>>,
      <<"g", "/", NL>>,
      <<"g", "/", NL, "!", "g", "/", NL>> }

-----------------------------------------------------------------------------
(* Index engine: src/src/index/engine.rs *)

\* The document add_chunk_to_tantivy hands to the writer.
add_chunk_to_tantivy(chunk) ==
    [file_path |-> chunk.file_path, content |-> chunk.content,
     start_line |-> chunk.start_line, end_line |-> chunk.end_line,
     content_hash |-> chunk.content_hash, last_modified |-> chunk.last_modified]

\* The foreign_keys settings of the connections the three inserts of one
\* index_file call can obtain.
IndexConnections ==
    [insert_file : PooledForeignKeys, insert_chunks_batch : PooledForeignKeys,
     insert_symbols_batch : PooledForeignKeys]

\* The value of a one-element set: binds a stage's result to a name once.
Only(values) == CHOOSE value \in values : TRUE

\* The tail of index_file (lines 126-158) once the file row is written.
IndexChunks(filed, pending, file_path, content, last_modified, enforced) ==
    Only({ Only({ Only({ Only({
        [db |-> symboled.db,
         pending |-> pending \o [k \in 1..Len(chunks) |-> add_chunk_to_tantivy(chunks[k])],
         result |-> IF chunked.ok /\ symboled.ok THEN Some(TRUE) ELSE None]
        : symboled \in {IF chunked.ok /\ all_symbols # <<>>
                        THEN insert_symbols_batch(chunked.db, all_symbols,
                                                  enforced.insert_symbols_batch)
                        ELSE chunked} })
        : chunked \in {IF chunks # <<>>
                       THEN insert_chunks_batch(filed, chunks, enforced.insert_chunks_batch)
                       ELSE [db |-> filed, ok |-> TRUE]} })
        : all_symbols \in {SymbolsOf(chunks, file_path)} })
        : chunks \in {chunk_file(file_path, content, last_modified)} })

\* index_file: [db, pending, result], result None for Err, Some(FALSE) for a
\* file skipped as unchanged, Some(TRUE) for a file indexed.
index_file(db, pending, disk, file_path, enforced) ==
    IF disk[file_path] = None THEN [db |-> db, pending |-> pending, result |-> None]
    ELSE Only({
        IF ~needs_reindex(db, file_path, metadata.last_modified)
        THEN [db |-> db, pending |-> pending, result |-> Some(FALSE)]
        ELSE Only({ Only({
            IndexChunks(filed, pending, file_path, Unwrap(disk[file_path]).content,
                        metadata.last_modified, enforced)
            : filed \in {insert_file(cleared, metadata, enforced.insert_file)} })
            : cleared \in {delete_file_symbols(delete_file_chunks(db, file_path),
                                               file_path)} })
        : metadata \in {from_path(file_path, Unwrap(disk[file_path]))} })

\* The loop of index_repository (lines 199-212) over the scanned files.
RECURSIVE IndexEach(_, _, _, _)
IndexEach(st, disk, files, enforced) ==
    IF files = <<>> THEN st
    ELSE Only({
        IndexEach([db |-> r.db, pending |-> r.pending,
                   indexed |-> st.indexed \cup
                               (IF r.result = Some(TRUE) THEN {files[1]} ELSE {}),
                   skipped |-> st.skipped \cup
                               (IF r.result = Some(FALSE) THEN {files[1]} ELSE {})],
                  disk, Tail(files), enforced)
        : r \in {index_file(st.db, st.pending, disk, files[1], enforced)} })

\* index_repository: every scanned file through index_file, then one commit
\* of the writer.  files is the scan in the order the directory walk gave.
index_repository(db, pending, committed, disk, files, enforced) ==
    Only({
        [db |-> st.db, pending |-> <<>>, committed |-> committed \o st.pending,
         indexed |-> st.indexed, skipped |-> st.skipped]
        : st \in {IndexEach([db |-> db, pending |-> pending, indexed |-> {},
                             skipped |-> {}], disk, files, enforced)} })

\* clear_index: delete_all_documents and commit, then the Database is opened
\* again on the same metadata.db; nothing deletes a row of it.
clear_index(db, committed) == [db |-> db, committed |-> <<>>]

\* The orders in which a directory walk can yield a set of files.
Orders(files) ==
    {order \in [1..Cardinality(files) -> files] :
        \A i, j \in 1..Cardinality(files) : order[i] = order[j] => i = j}

-----------------------------------------------------------------------------
(* Watcher: src/src/watcher/mod.rs *)

should_ignore_path(patterns, disk, path) ==
    \/ InIgnoredDirectory(path)
    \/ is_ignored(patterns, path)
    \/ IsSome(disk[path]) /\ ~should_index_file(path)

\* The snapshot entry update_index_state_for_file writes: size, mtime and the
\* SHA-256 of the first 8 KiB, which is all of a file of this model.
StateEntry(file) ==
    [size |-> Len(file.content), mtime |-> file.mtime,
     content_hash |-> Sha256(file.content)]

\* Indexer::remove_file_from_index: the file's chunk, symbol and file rows
\* and its full-text documents are deleted.
remove_file_from_index(db, pending, committed, path) ==
    [db |-> DeleteFileRows(delete_file_symbols(delete_file_chunks(db, path), path),
                           {path}, FALSE),
     pending |-> SelectSeq(pending, LAMBDA d : d.file_path # path),
     committed |-> SelectSeq(committed, LAMBDA d : d.file_path # path)]

\* Indexer::reconcile_ignored_files: every indexed file that now matches an
\* ignore rule or fails the scanner predicates is removed from the index.
RECURSIVE RemoveEach(_, _)
RemoveEach(st, paths) ==
    IF paths = {} THEN st
    ELSE Only({ Only({ RemoveEach(next, paths \ {path})
                       : next \in {remove_file_from_index(st.db, st.pending,
                                                          st.committed, path)} })
                : path \in {CHOOSE p \in paths : TRUE} })

reconcile_ignored_files(db, pending, committed, disk, patterns) ==
    Only({ Only({
        [db |-> st.db, pending |-> st.pending, committed |-> st.committed,
         removed |-> removed, kept |-> Cardinality(db.files) - Cardinality(removed)]
        : st \in {RemoveEach([db |-> db, pending |-> pending,
                              committed |-> committed], removed)} })
        : removed \in {{f.file_path : f \in {g \in db.files :
                          ~(/\ IsSome(disk[g.file_path])
                            /\ should_include(patterns, g.file_path))}}} })

-----------------------------------------------------------------------------
(* The store, the engine and the watcher at work *)

MaxDbSteps == 5
MaxDbRows == 2
MaxIxSteps == 4

NoPaths == [path \in IxPaths |-> None]

\* What ixLast records of an operation: its name and path, what it returned,
\* the row and document counts before it, whether the file was in the index
\* and unchanged since, the paths it skipped and removed, and the operation
\* before it.
Last(op, path, result, unchanged, skipped, removed) ==
    [op |-> op, path |-> path, result |-> result, before |-> Counts,
     unchanged |-> unchanged, skipped |-> skipped, removed |-> removed,
     prev |-> ixLast.op]

NoOperation ==
    [op |-> "none", path |-> None, result |-> None,
     before |-> [total_files |-> 0, total_chunks |-> 0, total_symbols |-> 0,
                 pending |-> 0, committed |-> 0],
     unchanged |-> FALSE, skipped |-> {}, removed |-> {}, prev |-> "none"]

SetStore(db) ==
    /\ dbFiles' = db.files
    /\ dbChunks' = db.chunks
    /\ dbSymbols' = db.symbols

\* A store just created by Database::open, and nothing else of the engine.
StartDb ==
    /\ dbFiles = {} /\ dbChunks = <<>> /\ dbSymbols = <<>>
    /\ dbFkDefault \in BOOLEAN
    /\ ftPending = <<>> /\ ftCommitted = <<>>
    /\ ixDisk = NoPaths /\ ixIgnoreFile = <<>> /\ ixIndexedAs = NoPaths
    /\ ixLast = NoOperation
    /\ ixSteps = MaxDbSteps
    /\ wtIgnore = <<>> /\ wtPending = {} /\ wtState = NoPaths

IdleIndex ==
    /\ dbFiles = {} /\ dbChunks = <<>> /\ dbSymbols = <<>>
    /\ dbFkDefault = FALSE
    /\ ftPending = <<>> /\ ftCommitted = <<>>
    /\ ixDisk = NoPaths /\ ixIgnoreFile = <<>> /\ ixIndexedAs = NoPaths
    /\ ixLast = NoOperation
    /\ ixSteps = 0
    /\ wtIgnore = <<>> /\ wtPending = {} /\ wtState = NoPaths

\* The rows the callers of the store hand it: file rows of two modification
\* times, and the chunks and symbols of "fn a\n".
DbFileRows ==
    {from_path(path, [content |-> <<"f", "n", " ", "a", NL>>, mtime |-> t]) :
        path \in IxPaths, t \in 1..MaxMtime}
DbChunkBatch(path) == chunk_file(path, <<"f", "n", " ", "a", NL>>, 1)
DbSymbolBatch(path) == SymbolsOf(DbChunkBatch(path), path)

DbStep(op, removed) ==
    /\ ixSteps > 0
    /\ ixSteps' = ixSteps - 1
    /\ ixLast' = Last(op, None, None, FALSE, {}, removed)
    /\ UNCHANGED <<dbFkDefault, ftPending, ftCommitted, ixDisk, ixIgnoreFile,
                   ixIndexedAs, wtIgnore, wtPending, wtState, nonIxVars>>

InsertFile ==
    \E file \in DbFileRows, enforced \in PooledForeignKeys :
        /\ SetStore(insert_file(Store, file, enforced))
        /\ DbStep("insert_file", {})

InsertChunksBatch ==
    \E path \in IxPaths, enforced \in PooledForeignKeys :
        /\ Len(dbChunks) < MaxDbRows
        /\ SetStore(insert_chunks_batch(Store, DbChunkBatch(path), enforced).db)
        /\ DbStep("insert_chunks_batch", {})

InsertSymbolsBatch ==
    \E path \in IxPaths, enforced \in PooledForeignKeys :
        /\ Len(dbSymbols) < MaxDbRows
        /\ SetStore(insert_symbols_batch(Store, DbSymbolBatch(path), enforced).db)
        /\ DbStep("insert_symbols_batch", {})

DeleteFileChunks ==
    \E path \in IxPaths :
        /\ SetStore(delete_file_chunks(Store, path))
        /\ DbStep("delete_file_chunks", {})

DeleteFileSymbols ==
    \E path \in IxPaths :
        /\ SetStore(delete_file_symbols(Store, path))
        /\ DbStep("delete_file_symbols", {})

DeleteFile ==
    \E path \in IxPaths, enforced \in PooledForeignKeys :
        /\ SetStore(delete_file(Store, path, enforced))
        /\ DbStep("delete_file", {path} \cap {f.file_path : f \in dbFiles})

DeleteFilesBulk ==
    \E paths \in SUBSET IxPaths, enforced \in PooledForeignKeys :
        /\ SetStore(delete_files_bulk(Store, paths, enforced))
        /\ DbStep("delete_files_bulk", paths \cap {f.file_path : f \in dbFiles})

ClearAll ==
    /\ SetStore(clear_all(Store))
    /\ DbStep("clear_all", {})

NextDb ==
    \/ InsertFile
    \/ InsertChunksBatch
    \/ InsertSymbolsBatch
    \/ DeleteFileChunks
    \/ DeleteFileSymbols
    \/ DeleteFile
    \/ DeleteFilesBulk
    \/ ClearAll

\* A repository with a.rs and g/b.rs, a .flashgrepignore of comments, and an
\* index just created; the watcher has loaded the rules.
StartIndex ==
    /\ dbFiles = {} /\ dbChunks = <<>> /\ dbSymbols = <<>>
    /\ dbFkDefault \in BOOLEAN
    /\ ftPending = <<>> /\ ftCommitted = <<>>
    /\ ixDisk = [path \in IxPaths |->
                    Some([content |-> <<"f", "n", " ", "a", NL>>, mtime |-> 1])]
    /\ ixIgnoreFile = <<"#", NL>>
    /\ ixIndexedAs = NoPaths
    /\ ixLast = NoOperation
    /\ ixSteps = MaxIxSteps
    /\ wtIgnore = from_file(ixIgnoreFile)
    /\ wtPending = {}
    /\ wtState = NoPaths

IxStep == ixSteps > 0 /\ ixSteps' = ixSteps - 1

\* a.rs is created or rewritten; the clock may not have reached the next
\* second since it was last written.
WriteFile ==
    \E path \in {IX_A}, file \in IxFiles :
        /\ IxStep
        /\ ixDisk[path] # Some(file)
        /\ ixDisk' = [ixDisk EXCEPT ![path] = Some(file)]
        /\ UNCHANGED <<dbFiles, dbChunks, dbSymbols, dbFkDefault, ftPending,
                       ftCommitted, ixIgnoreFile, ixIndexedAs, ixLast, wtIgnore,
                       wtPending, wtState, nonIxVars>>

RemoveFile ==
    \E path \in {IX_A} :
        /\ IxStep
        /\ IsSome(ixDisk[path])
        /\ ixDisk' = [ixDisk EXCEPT ![path] = None]
        /\ UNCHANGED <<dbFiles, dbChunks, dbSymbols, dbFkDefault, ftPending,
                       ftCommitted, ixIgnoreFile, ixIndexedAs, ixLast, wtIgnore,
                       wtPending, wtState, nonIxVars>>

EditIgnoreFile ==
    \E content \in IgnoreFiles :
        /\ IxStep
        /\ content # ixIgnoreFile
        /\ ixIgnoreFile' = content
        /\ UNCHANGED <<dbFiles, dbChunks, dbSymbols, dbFkDefault, ftPending,
                       ftCommitted, ixDisk, ixIndexedAs, ixLast, wtIgnore,
                       wtPending, wtState, nonIxVars>>

InIndexUnchanged(path) == IsSome(ixIndexedAs[path]) /\ ixIndexedAs[path] = ixDisk[path]

\* Indexer::index_file(path)
IndexFile ==
    \E path \in IxPaths, enforced \in IndexConnections :
        \E r \in {index_file(Store, ftPending, ixDisk, path, enforced)} :
           /\ IxStep
           /\ SetStore(r.db)
           /\ ftPending' = r.pending
           /\ ixIndexedAs' = IF r.result = Some(TRUE)
                             THEN [ixIndexedAs EXCEPT ![path] = ixDisk[path]]
                             ELSE ixIndexedAs
           /\ ixLast' = Last("index_file", Some(path), r.result,
                             InIndexUnchanged(path), {}, {})
           /\ UNCHANGED <<dbFkDefault, ftCommitted, ixDisk, ixIgnoreFile, wtIgnore,
                          wtPending, wtState, nonIxVars>>

\* Indexer::index_repository
IndexRepository ==
    \E files \in Orders(scan(ixDisk, ixIgnoreFile)), enforced \in IndexConnections :
        \E r \in {index_repository(Store, ftPending, ftCommitted, ixDisk, files,
                                   enforced)} :
           /\ IxStep
           /\ SetStore(r.db)
           /\ ftPending' = r.pending
           /\ ftCommitted' = r.committed
           /\ ixIndexedAs' = [path \in IxPaths |->
                                 IF path \in r.indexed THEN ixDisk[path]
                                 ELSE ixIndexedAs[path]]
           /\ ixLast' = Last("index_repository", None, None, FALSE, r.skipped, {})
           /\ UNCHANGED <<dbFkDefault, ixDisk, ixIgnoreFile, wtIgnore, wtPending,
                          wtState, nonIxVars>>

\* Indexer::clear_index, called as `index --force` calls it: on an indexer
\* that has buffered no document.
ClearIndex ==
    \E r \in {clear_index(Store, ftCommitted)} :
       /\ IxStep
       /\ ftPending = <<>>
       /\ SetStore(r.db)
       /\ ftCommitted' = r.committed
       /\ ixIndexedAs' = NoPaths
       /\ ixLast' = Last("clear_index", None, None, FALSE, {}, {})
       /\ UNCHANGED <<dbFkDefault, ftPending, ixDisk, ixIgnoreFile, wtIgnore,
                      wtPending, wtState, nonIxVars>>

\* process_events receives an event for a path (lines 246-257): it is dropped
\* when should_ignore_path says so, and pending otherwise.
ReceiveEvent ==
    \E path \in IxPaths :
        /\ IxStep
        /\ path \notin wtPending
        /\ ~should_ignore_path(wtIgnore, ixDisk, path)
        /\ wtPending' = wtPending \cup {path}
        /\ UNCHANGED <<dbFiles, dbChunks, dbSymbols, dbFkDefault, ftPending,
                       ftCommitted, ixDisk, ixIgnoreFile, ixIndexedAs, ixLast,
                       wtIgnore, wtState, nonIxVars>>

\* process_events receives an event for .flashgrepignore:
\* reload_ignore_patterns_and_reconcile (lines 335-345).
ReloadIgnoreAndReconcile ==
    \E patterns \in {from_file(ixIgnoreFile)} :
    \E r \in {reconcile_ignored_files(Store, ftPending, ftCommitted, ixDisk, patterns)} :
       /\ IxStep
       /\ wtIgnore' = patterns
       /\ SetStore(r.db)
       /\ ftPending' = r.pending
       /\ ftCommitted' = r.committed
       /\ ixIndexedAs' = [path \in IxPaths |->
                             IF path \in r.removed THEN None ELSE ixIndexedAs[path]]
       /\ ixLast' = Last("reconcile_ignored_files", None, None, FALSE, {}, r.removed)
       /\ UNCHANGED <<dbFkDefault, ixDisk, ixIgnoreFile, wtPending, wtState, nonIxVars>>

\* handle_change(path) for a pending path whose debounce period has passed
HandleChange ==
    \E path \in wtPending, enforced \in IndexConnections :
        /\ IxStep
        /\ wtPending' = wtPending \ {path}
        /\ IF is_ignored(wtIgnore, path) \/ ixDisk[path] = None
           THEN \E r \in {remove_file_from_index(Store, ftPending, ftCommitted, path)} :
                   /\ SetStore(r.db)
                   /\ ftPending' = r.pending
                   /\ ftCommitted' = r.committed
                   /\ wtState' = [wtState EXCEPT ![path] = None]
                   /\ ixIndexedAs' = [ixIndexedAs EXCEPT ![path] = None]
                   /\ ixLast' = Last("remove_file_from_index", Some(path), None,
                                     FALSE, {}, {path})
           ELSE \E r \in {index_file(Store, ftPending, ixDisk, path, enforced)} :
                   /\ SetStore(r.db)
                   /\ ftPending' = r.pending
                   /\ ftCommitted' = ftCommitted
                   /\ wtState' = IF r.result = Some(TRUE)
                                 THEN [wtState EXCEPT
                                         ![path] = Some(StateEntry(Unwrap(ixDisk[path])))]
                                 ELSE wtState
                   /\ ixIndexedAs' = IF r.result = Some(TRUE)
                                     THEN [ixIndexedAs EXCEPT ![path] = ixDisk[path]]
                                     ELSE ixIndexedAs
                   /\ ixLast' = Last("index_file", Some(path), r.result,
                                     InIndexUnchanged(path), {}, {})
        /\ UNCHANGED <<dbFkDefault, ixDisk, ixIgnoreFile, wtIgnore, nonIxVars>>

NextIndex ==
    \/ WriteFile
    \/ RemoveFile
    \/ EditIgnoreFile
    \/ IndexFile
    \/ IndexRepository
    \/ ClearIndex
    \/ ReceiveEvent
    \/ ReloadIgnoreAndReconcile
    \/ HandleChange

-----------------------------------------------------------------------------
(* MCP transports: src/src/mcp/mod.rs (TCP) and src/src/mcp/stdio.rs *)

MAX_MCP_REQUEST_BYTES == 512 * 1024
MAX_MCP_RESPONSE_BYTES == 512 * 1024
MAX_MCP_GET_SLICE_BYTES == 192 * 1024

Transports == {"tcp", "stdio"}

\* struct JsonRpcResponse: id is an Option<u64>, result and error are left
\* out of the encoding when None.
JsonRpcResponse(id, result, error) == [id |-> id, result |-> result, error |-> error]
JsonRpcError(code) == [code |-> code]

\* The length of format!("{}", n).
DecimalDigits(n) == Len(FormatU32(n))

\* The length of the compact JSON text of a result body other than a list of
\* files, and of an error object: an error body is a few hundred bytes, and
\* the files of this model are a few lines long, so that a read_code or
\* write_code payload with its metadata stays below it.
PayloadBytes == 1024

\* safety::payload_too_large_error: {"error":"payload_too_large",
\* "guidance":..,"limit_bytes":..,"observed_bytes":..,"operation":..}
payload_too_large_error(operation, observed_bytes, limit_bytes) ==
    [error |-> "payload_too_large", operation |-> operation,
     observed_bytes |-> observed_bytes, limit_bytes |-> limit_bytes,
     bytes |-> PayloadBytes]

\* safety::invalid_params_error: {"error":"invalid_params","message":".."}
invalid_params_error(message) ==
    [error |-> "invalid_params", message |-> message, bytes |-> PayloadBytes]

\* The payload of a tool as a result body.
ToolPayload(payload, is_error) ==
    [error |-> IF "error" \in DOMAIN payload THEN payload.error ELSE "none",
     payload |-> payload, is_error |-> is_error, bytes |-> PayloadBytes]

\* A body of the given length that is not an error (a list of files).
ListedFiles(bytes) == [error |-> "none", bytes |-> bytes]

\* serde_json::to_string(&response).len():
\* {"jsonrpc":"2.0","id":<id>,"result":<result>} or
\* {"jsonrpc":"2.0","id":<id>,"error":{"code":<code>,"message":".."}}
EncodedBytes(response) ==
    22 + (IF response.id = None THEN 4 ELSE DecimalDigits(Unwrap(response.id)))
       + (IF response.result = None THEN 0 ELSE 10 + Unwrap(response.result).bytes)
       + (IF response.error = None THEN 0 ELSE 9 + PayloadBytes)
       + 1

write_response_line_without_id(response) ==
    IF EncodedBytes(response) > MAX_MCP_RESPONSE_BYTES
    THEN JsonRpcResponse(None,
             Some(payload_too_large_error("response", EncodedBytes(response),
                                          MAX_MCP_RESPONSE_BYTES)), None)
    ELSE response

\* write_response_line (mod.rs 143-166, stdio.rs 862-885): the response whose
\* encoding is written as one line.
write_response_line(response) ==
    IF EncodedBytes(response) > MAX_MCP_RESPONSE_BYTES
    THEN JsonRpcResponse(response.id,
             Some(payload_too_large_error("response", EncodedBytes(response),
                                          MAX_MCP_RESPONSE_BYTES)), None)
    ELSE response

\* What handle_request did: Ok(response) with the effects of the tool on
\* the file and the session file, Err(e) (a `?` let an error through), or a
\* panic inside the tool.
Handled(response, outcome) == [kind |-> "ok", response |-> response, outcome |-> outcome]
HandlerFailed == [kind |-> "err", outcome |-> Rejected([kind |-> "none"])]
HandlerPanicked == [kind |-> "panic", outcome |-> Rejected([kind |-> "none"])]
NoEffect == Rejected([kind |-> "none"])

\* The arguments get_slice hands to read_code (mod.rs 262-293, stdio.rs
\* 383-415): start_line and end_line default to 1, max_bytes is the limit,
\* continuation_start_line is passed on and nothing else is.
GetSliceArgs(arguments) ==
    [start_line |-> Some(IF IsSome(arguments.start_line) THEN Unwrap(arguments.start_line) ELSE 1),
     end_line |-> Some(IF IsSome(arguments.end_line) THEN Unwrap(arguments.end_line) ELSE 1),
     max_lines |-> None,
     max_bytes |-> Some(MAX_MCP_GET_SLICE_BYTES),
     max_tokens |-> None,
     continuation_start_line |-> IF "continuation_start_line" \in DOMAIN arguments
                                 THEN arguments.continuation_start_line ELSE None]

\* handle_request of the TCP server (mod.rs 168-717) for the methods
\* list_files, write_code and get_slice.  db tells whether Database::open and
\* get_all_files succeed and how long the encoded list of files is.
handle_request_tcp(request, db, disk, sessions, overflow_checks) ==
    IF request.method = "list_files"
    THEN IF ~db.opens \/ db.files = None THEN HandlerFailed
         ELSE Handled(JsonRpcResponse(request.id, Some(ListedFiles(Unwrap(db.files))), None),
                      NoEffect)
    ELSE IF request.method = "write_code"
    THEN Only({ IF o.response.kind = "panic" THEN HandlerPanicked
                ELSE IF o.response.kind = "error"
                THEN Handled(JsonRpcResponse(request.id,
                                 Some(invalid_params_error(o.response.message)), None), o)
                ELSE Handled(JsonRpcResponse(request.id,
                                 Some(ToolPayload(o.response, FALSE)), None), o)
                : o \in {write_code(disk, sessions, Unwrap(request.arguments), overflow_checks)} })
    ELSE IF request.method = "get_slice"
    THEN Only({ IF r.kind = "error"
                THEN Handled(JsonRpcResponse(request.id,
                                 Some(invalid_params_error(r.message)), None), NoEffect)
                ELSE Handled(JsonRpcResponse(request.id, Some(ToolPayload(r, FALSE)), None),
                             NoEffect)
                : r \in {read_code(disk[Unwrap(request.arguments).file_path],
                                   GetSliceArgs(Unwrap(request.arguments)))} })
    ELSE Handled(JsonRpcResponse(request.id, None, Some(JsonRpcError(-32601))), NoEffect)

\* handle_request of the stdio server (stdio.rs 128-305) for tools/call of the
\* same tools: the payload is wrapped as text content with isError, and only
\* a failing Database::open is let through as Err.
handle_request_stdio(request, db, disk, sessions, overflow_checks) ==
    IF request.method = "list_files"
    THEN IF ~db.opens THEN HandlerFailed
         ELSE IF db.files = None
         THEN Handled(JsonRpcResponse(request.id,
                          Some(ToolPayload([kind |-> "error", message |-> "db"], TRUE)),
                          None), NoEffect)
         ELSE Handled(JsonRpcResponse(request.id, Some(ListedFiles(Unwrap(db.files))), None),
                      NoEffect)
    ELSE IF request.method = "write_code"
    THEN Only({ IF o.response.kind = "panic" THEN HandlerPanicked
                ELSE IF o.response.kind = "error"
                THEN Handled(JsonRpcResponse(request.id,
                                 Some(ToolPayload(invalid_params_error(o.response.message),
                                                  TRUE)), None), o)
                ELSE Handled(JsonRpcResponse(request.id,
                                 Some(ToolPayload(o.response, ~o.response.ok)), None), o)
                : o \in {write_code(disk, sessions, Unwrap(request.arguments), overflow_checks)} })
    ELSE IF request.method = "get_slice"
    THEN Only({ Handled(JsonRpcResponse(request.id,
                            Some(ToolPayload(r, r.kind = "error")), None), NoEffect)
                : r \in {read_code(disk[Unwrap(request.arguments).file_path],
                                   GetSliceArgs(Unwrap(request.arguments)))} })
    ELSE Handled(JsonRpcResponse(request.id, None, Some(JsonRpcError(-32601))), NoEffect)

handle_request(transport, request, db, disk, sessions, overflow_checks) ==
    IF transport = "tcp"
    THEN handle_request_tcp(request, db, disk, sessions, overflow_checks)
    ELSE handle_request_stdio(request, db, disk, sessions, overflow_checks)

\* One pass of the read loop (handle_connection, mod.rs 84-138; start,
\* stdio.rs 60-122) over one input line: original is the response handed to
\* write_response_line, written the one whose line went out, open whether
\* the loop goes on.
Served(original, outcome, open) ==
    [original |-> original,
     written |-> IF original = None THEN None
                 ELSE Some(write_response_line(Unwrap(original))),
     outcome |-> outcome, open |-> open]

ServeLine(transport, line, disk, sessions, overflow_checks) ==
    IF line.kind = "unreadable"
    THEN \* not UTF-8: read_line(..).await? ends the TCP connection, the
         \* stdio loop logs the error and continues
         Served(None, NoEffect, transport = "stdio")
    ELSE IF line.kind = "text" /\ Trim(line.text) = <<>>
    THEN Served(None, NoEffect, TRUE)
    ELSE IF line.kind = "oversized"
    THEN Served(Some(JsonRpcResponse(None,
                    Some(payload_too_large_error("request", line.bytes,
                                                 MAX_MCP_REQUEST_BYTES)), None)),
                NoEffect, TRUE)
    ELSE IF line.kind = "text"
    THEN \* serde_json::from_str::<JsonRpcRequest> fails
         IF transport = "tcp" THEN Served(None, NoEffect, TRUE)
         ELSE Served(Some(JsonRpcResponse(None, None, Some(JsonRpcError(-32700)))),
                     NoEffect, TRUE)
    ELSE Only({ IF h.kind = "panic" THEN Served(None, NoEffect, FALSE)
                ELSE IF h.kind = "err"
                THEN Served(Some(JsonRpcResponse(None,
                                Some(invalid_params_error("request_failed")), None)),
                            NoEffect, TRUE)
                ELSE Served(Some(h.response), h.outcome, TRUE)
                : h \in {handle_request(transport, line.request, line.db, disk, sessions,
                                        overflow_checks)} })

\* The lines a client sends: blank ones, ones that are not a request, one
\* longer than the limit, one that is not UTF-8, and requests with and
\* without an id.
MaxMcpLines == 3
RequestId == 7
NoDb == [opens |-> TRUE, files |-> None]
NoRequest == [id |-> None, method |-> "none", arguments |-> None]
McpLine(kind, text, bytes, request, db) ==
    [kind |-> kind, text |-> text, bytes |-> bytes, request |-> request, db |-> db]

\* Lengths of the encoded list of files around the response limit: with the
\* id 7 the envelope adds 34 bytes, with no id ("null") 37.
ListedFilesBytes == {2, MAX_MCP_RESPONSE_BYTES - 37, MAX_MCP_RESPONSE_BYTES - 34,
                     MAX_MCP_RESPONSE_BYTES}

McpWriteArgs ==
    { WriteCall(PATH_A, <<1, 1>>, <<"z">>, None, None),
      WriteCall(PATH_A, <<1, 1>>, OversizedReplacement, None, None),
      WriteCall(PATH_A, <<1, 1>>, <<"z">>, None, <<<<"s", "1">>, None, None>>),
      WriteCall(PATH_A, <<1, 1>>, OversizedReplacement, None,
                <<<<"s", "1">>, Some(1), Some(TRUE)>>) }

McpRequests ==
    { [id |-> id, method |-> "list_files", arguments |-> None] : id \in {None, Some(RequestId)} }
    \cup { [id |-> id, method |-> "write_code", arguments |-> Some(a)] :
             id \in {None, Some(RequestId)}, a \in McpWriteArgs }
    \cup { [id |-> id, method |-> "get_slice",
            arguments |-> Some([file_path |-> PATH_A, start_line |-> Some(1),
                                end_line |-> None])] : id \in {None, Some(RequestId)} }
    \cup { [id |-> id, method |-> "nope", arguments |-> None] : id \in {None, Some(RequestId)} }

McpLines ==
    { McpLine("text", t, Len(t), NoRequest, NoDb) :
        t \in {<<>>, <<" ", CR>>, <<"{">>, <<"[", "]", " ">>} }
    \cup { McpLine("oversized", <<>>, MAX_MCP_REQUEST_BYTES + 1, NoRequest, NoDb),
           McpLine("unreadable", <<>>, 2, NoRequest, NoDb) }
    \cup { McpLine("request", <<>>, PayloadBytes, r, db) :
             r \in {q \in McpRequests : q.method = "list_files"},
             db \in {[opens |-> FALSE, files |-> None], NoDb}
                    \cup {[opens |-> TRUE, files |-> Some(n)] : n \in ListedFilesBytes} }
    \cup { McpLine("request", <<>>, PayloadBytes, r, NoDb) :
             r \in {q \in McpRequests : q.method # "list_files"} }

\* What the log keeps of a line.
LineSummary(line) ==
    [kind |-> line.kind,
     blank |-> line.kind = "text" /\ Trim(line.text) = <<>>,
     id |-> line.request.id,
     method |-> line.request.method,
     replacement_bytes |-> IF line.request.method = "write_code"
                           THEN Len(Unwrap(line.request.arguments).replacement) ELSE 0,
     db_fails |-> ~line.db.opens \/ (line.request.method = "list_files" /\ line.db.files = None)]

\* A connection of either transport to a server whose repository holds the
\* file a.rs.
StartMcp ==
    /\ mcTransport \in Transports
    /\ mcOpen = TRUE
    /\ mcLog = <<>>
    /\ mcLines = MaxMcpLines
    /\ wrDisk = [p \in WritePaths |-> IF p = PATH_A THEN Some(<<"x", NL, "y", NL>>) ELSE None]
    /\ wrSessions = [sp \in SessionPaths |-> None]
    /\ wrOverflowChecks \in BOOLEAN
    /\ wrResponse = [kind |-> "none"]
    /\ wrRange = <<1, 1>>
    /\ wrCalls = 0
    /\ wrLast = NotCalled
    /\ wrTrace = <<>>

IdleMcp == mcTransport = "tcp" /\ mcOpen = FALSE /\ mcLog = <<>> /\ mcLines = 0

\* The server reads the next line of the connection and serves it.
ReceiveLine ==
    /\ mcOpen
    /\ mcLines > 0
    /\ \E line \in McpLines :
         \E s \in {ServeLine(mcTransport, line, wrDisk, wrSessions, wrOverflowChecks)} :
            /\ mcLog' = Append(mcLog, [line |-> LineSummary(line),
                                       original |-> s.original,
                                       written |-> s.written,
                                       disk |-> wrDisk])
            /\ mcOpen' = s.open
            /\ wrDisk' = IF s.outcome.written = None THEN wrDisk
                          ELSE [wrDisk EXCEPT ![PATH_A] = s.outcome.written]
            /\ wrSessions' =
                 IF s.outcome.session_op.op = "save"
                 THEN [wrSessions EXCEPT
                         ![write_session_path(s.outcome.session_op.session.continuation_id)]
                            = Some(s.outcome.session_op.session)]
                 ELSE wrSessions
    /\ mcLines' = mcLines - 1
    /\ UNCHANGED <<mcTransport, wrOverflowChecks, wrResponse, wrRange, wrCalls, wrLast, wrTrace,
                   ckVars, rdVars, lkVars, ixVars, bsVars, srVars, stVars, xtVars, deVars, scVars, cwVars, svVars, saVars, glVars>>

IdleBootstrap ==
    /\ bsTransport = "tcp" /\ bsInjected = FALSE /\ bsSkill = "missing"
    /\ bsPending = [c \in {1, 2} |-> None] /\ bsLog = <<>> /\ bsSteps = 0

IdleSearch ==
    /\ srIndex = [size |-> 0, hits |-> {}, dense |-> FALSE]
    /\ srArgs = [limit |-> 1, offset |-> 0]
    /\ srCursor = None /\ srLog = <<>> /\ srSteps = 0

IdleState ==
    /\ stState = [version |-> 1, last_updated |-> 0, files |-> <<>>]
    /\ stFile = None /\ stSaved = None /\ stLast = [op |-> "none", ok |-> TRUE] /\ stSteps = 0

IdleExit == xtCommand = "none" /\ xtOutcome = "Ok" /\ xtExit = None

\* The paths of the file-system events the watcher receives: two source
\* files, the ignore file and a file under an ignored directory.
IGNORE_FILE == ".flashgrepignore"
DebouncePaths == {"a.rs", "b.rs", IGNORE_FILE, "target/a.rs"}

IdleDebounce ==
    /\ deDebounceMs = 500
    /\ deRx = <<>>
    /\ dePending = [p \in DebouncePaths |-> None]
    /\ deSinceUpdate = 0
    /\ deRunning = FALSE
    /\ deEvents = 0
    /\ deEntered = [p \in DebouncePaths |-> 0]
    /\ deHandled = [p \in DebouncePaths |-> 0]
    /\ deReady = {}

IdleScan ==
    /\ scPhase = "idle"
    /\ scAdded = {}
    /\ scModified = {}
    /\ scDeleted = {}

\* No connection calls write_code.
Connections == {1, 2}
IdleConcurrent ==
    /\ cwBefore = <<>>
    /\ cwFile = <<>>
    /\ cwCall = [c \in Connections |-> [pc |-> "idle"]]

\* No watcher updates a snapshot.
IdleSnapshot == svLen = 0 /\ svUnsaved = 0 - 1

\* No save is under way.
IdleSave ==
    /\ saPath = <<>> /\ saState = None /\ saPrevious = None
    /\ saFiles = <<>> /\ saPc = "idle"

\* No pattern is being matched.
IdleGlob == glPattern = <<>> /\ glName = <<>> /\ glMatched = None

-----------------------------------------------------------------------------
(* Specifications *)

InitChunk == StartChunk /\ IdleRead /\ IdleWrite /\ IdleLock /\ IdleIndex /\ IdleMcp /\ IdleBootstrap /\ IdleSearch /\ IdleState /\ IdleExit /\ IdleDebounce /\ IdleScan /\ IdleConcurrent /\ IdleSnapshot /\ IdleSave /\ IdleGlob
SpecChunk == InitChunk /\ [][ChunkFile]_vars

InitRead == IdleChunk /\ StartRead /\ IdleWrite /\ IdleLock /\ IdleIndex /\ IdleMcp /\ IdleBootstrap /\ IdleSearch /\ IdleState /\ IdleExit /\ IdleDebounce /\ IdleScan /\ IdleConcurrent /\ IdleSnapshot /\ IdleSave /\ IdleGlob
SpecRead == InitRead /\ [][ReadCall]_vars

InitWrite == IdleChunk /\ IdleRead /\ StartWrite /\ IdleLock /\ IdleIndex /\ IdleMcp /\ IdleBootstrap /\ IdleSearch /\ IdleState /\ IdleExit /\ IdleDebounce /\ IdleScan /\ IdleConcurrent /\ IdleSnapshot /\ IdleSave /\ IdleGlob
NextWrite == WriteCode \/ ExternalEdit
SpecWrite == InitWrite /\ [][NextWrite]_vars

InitLock == IdleChunk /\ IdleRead /\ IdleWrite /\ StartLock /\ IdleIndex /\ IdleMcp /\ IdleBootstrap /\ IdleSearch /\ IdleState /\ IdleExit /\ IdleDebounce /\ IdleScan /\ IdleConcurrent /\ IdleSnapshot /\ IdleSave /\ IdleGlob
SpecLock == InitLock /\ [][NextLock]_vars

InitDb == IdleChunk /\ IdleRead /\ IdleWrite /\ IdleLock /\ StartDb /\ IdleMcp /\ IdleBootstrap /\ IdleSearch /\ IdleState /\ IdleExit /\ IdleDebounce /\ IdleScan /\ IdleConcurrent /\ IdleSnapshot /\ IdleSave /\ IdleGlob
SpecDb == InitDb /\ [][NextDb]_vars

InitIndex == IdleChunk /\ IdleRead /\ IdleWrite /\ IdleLock /\ StartIndex /\ IdleMcp /\ IdleBootstrap /\ IdleSearch /\ IdleState /\ IdleExit /\ IdleDebounce /\ IdleScan /\ IdleConcurrent /\ IdleSnapshot /\ IdleSave /\ IdleGlob
SpecIndex == InitIndex /\ [][NextIndex]_vars

InitMcp == IdleChunk /\ IdleRead /\ IdleLock /\ IdleIndex /\ StartMcp /\ IdleBootstrap /\ IdleSearch /\ IdleState /\ IdleExit /\ IdleDebounce /\ IdleScan /\ IdleConcurrent /\ IdleSnapshot /\ IdleSave /\ IdleGlob
SpecMcp == InitMcp /\ [][ReceiveLine]_vars

\* C10: the chunks partition the lines of the file: the first starts at line
\* 1, each next one starts on the line after the previous one's end, the last
\* ends on the last line, 1 <= start_line <= end_line, and every chunk's
\* content is exactly its lines joined by "\n".
C10_ChunksPartitionLines ==
    IsSome(ckChunks) =>
        LET lines == Lines(ckContent)
            chunks == Unwrap(ckChunks)
            n == Len(chunks)
        IN /\ (lines = <<>>) <=> (n = 0)
           /\ n > 0 => /\ chunks[1].start_line = 1
                       /\ chunks[n].end_line = Len(lines)
           /\ \A k \in 1..n :
                /\ 1 <= chunks[k].start_line
                /\ chunks[k].start_line <= chunks[k].end_line
                /\ k < n => chunks[k + 1].start_line = chunks[k].end_line + 1
                /\ SplitNL(chunks[k].content)
                     = SubSeq(lines, chunks[k].start_line, chunks[k].end_line)
           /\ Join([k \in 1..n |-> chunks[k].content]) = Join(lines)

\* A file cut at least twice, once at the ceiling and once before it.
C10_Witness ==
    /\ IsSome(ckChunks)
    /\ Len(Unwrap(ckChunks)) >= 3
    /\ \E k \in 1..Len(Unwrap(ckChunks)) :
          Unwrap(ckChunks)[k].end_line - Unwrap(ckChunks)[k].start_line + 1 = MAX_CHUNK_LINES
    /\ \E k \in 1..Len(Unwrap(ckChunks)) :
          Unwrap(ckChunks)[k].end_line - Unwrap(ckChunks)[k].start_line + 1 < MAX_CHUNK_LINES - 1

\* The lines the loop is asked for: from the initial start_line (1 when absent)
\* to end_line or EOF.
RequestedLines ==
    LET lines == Lines(Unwrap(rdFile))
        first == IF IsSome(rdArgs.start_line) THEN Unwrap(rdArgs.start_line) ELSE 1
        last == Min(IF IsSome(rdArgs.end_line) THEN Unwrap(rdArgs.end_line) ELSE Len(lines),
                    Len(lines))
    IN [k \in 1..(last - first + 1) |-> <<first + k - 1, lines[first + k - 1]>>]

\* Every requested line fits the byte budget (the server's ceiling when none
\* is given) and the token budget on its own.
EachLineFitsBudgets ==
    \A k \in 1..Len(RequestedLines) :
        /\ Len(RequestedLines[k][2]) <= (IF IsSome(rdArgs.max_bytes)
                                          THEN Unwrap(rdArgs.max_bytes) ELSE MAX_MCP_READ_BYTES)
        /\ WithinBudget(rdArgs.max_tokens, estimate_tokens(RequestedLines[k][2]))

LoopYieldsRequestedLines ==
    /\ rdServed = [k \in 1..Len(RequestedLines) |-> RequestedLines[k][1]]
    /\ Join(rdPieces) = Join([k \in 1..Len(RequestedLines) |-> RequestedLines[k][2]])

\* C2 (as stated): from any start_line and any positive budgets, the loop that
\* ends when continuation_start_line is null has returned exactly the
\* requested lines, each once and in order.
C2_LoopAlwaysReconstructs ==
    rdStatus \in {"done", "too_large"} => LoopYieldsRequestedLines

\* C2 (amended): when every requested line fits max_bytes and max_tokens on its
\* own, the loop never ends in payload_too_large, the lines served so far are
\* always the requested lines before the cursor, and at the end the pieces
\* joined by newlines are exactly the requested lines, each once and in order;
\* a call that fails returns no content.
C2_LoopReconstructsWhenLinesFit ==
    /\ rdStatus = "error" => rdPieces = <<>>
    /\ rdStatus = "too_large" => ~EachLineFitsBudgets
    /\ rdStatus = "done" => LoopYieldsRequestedLines
    /\ rdStatus = "reading" /\ IsSome(rdCursor) =>
          /\ rdServed = [k \in 1..Len(rdServed) |-> RequestedLines[k][1]]
          /\ Unwrap(rdCursor) = RequestedLines[Len(rdServed) + 1][1]

\* A loop of at least three calls that ended with every line served.
C2_Witness ==
    /\ rdStatus = "done"
    /\ Len(rdPieces) >= 3
    /\ IsSome(rdArgs.start_line) /\ Unwrap(rdArgs.start_line) > 1
    /\ IsSome(rdArgs.max_bytes) /\ IsSome(rdArgs.max_tokens)

\* C1: whenever a call supplies a precondition that does not match the file's
\* current content, it returns ok=false with error "precondition_failed" and
\* leaves the file's bytes as they were.  Stated for calls that are otherwise
\* well formed (an existing non-empty file, a range inside it, a replacement
\* within the size limit, the stored session for a later chunk).
C1_MismatchFailsAndKeepsFile ==
    (wrLast.called /\ wrLast.mismatch /\ wrLast.well_formed) =>
        /\ wrResponse.kind = "result"
        /\ wrResponse.ok = FALSE
        /\ wrResponse.error = "precondition_failed"
        /\ wrDisk = wrLast.before

\* The live processes that hold the watcher lock: acquire_watcher_lock returned
\* Ok to them and they have not dropped their watcher.
LockHolders == {p \in WatcherPids : p \in lkAlive /\ lkPc[p] = "held"}

\* C3: for every interleaving of the steps of concurrent acquisitions, at most
\* one live process ends up holding the watcher lock.
C3_AtMostOneLiveHolder == Cardinality(LockHolders) <= 1

\* The full-text documents of a file that a searcher sees.
DocumentsOf(path) == SelectSeq(ftCommitted, LAMBDA d : d.file_path = path)

\* The chunks of a file as index_file last indexed it.
LastIndexedChunks(path) ==
    chunk_file(path, Unwrap(ixIndexedAs[path]).content, Unwrap(ixIndexedAs[path]).mtime)

\* C4: after index_file calls on a path, modified in between, and the commit
\* that index_repository ends with, the committed documents of the path are
\* exactly the documents of the chunks of its most recent reindex.
C4_DocumentsAreLatestChunks ==
    ixLast.op = "index_repository" =>
        \A path \in IxPaths :
            IsSome(ixIndexedAs[path]) =>
                DocumentsOf(path)
                  = [k \in 1..Len(LastIndexedChunks(path)) |->
                        add_chunk_to_tantivy(LastIndexedChunks(path)[k])]

\* C5: after index_file(P) has returned without error the store holds exactly
\* one file row for P; when it has indexed P (it returned true) that row is
\* the one of the file as read and the chunk and symbol rows of P are exactly
\* the chunks and symbols of this run.
C5_RowsAreThisRuns ==
    /\ (ixLast.op = "index_file" /\ ixLast.result # None) =>
          Cardinality({f \in dbFiles : f.file_path = Unwrap(ixLast.path)}) = 1
    /\ (ixLast.op = "index_file" /\ ixLast.result = Some(TRUE)) =>
          LET path == Unwrap(ixLast.path)
          IN /\ from_path(path, Unwrap(ixIndexedAs[path])) \in dbFiles
             /\ RowsOf(dbChunks, path) = LastIndexedChunks(path)
             /\ RowsOf(dbSymbols, path) = SymbolsOf(LastIndexedChunks(path), path)

\* index_file has indexed again a file that had a file, a chunk and a symbol
\* row from an earlier run, and left it with rows.
C5_Witness ==
    /\ ixLast.op = "index_file"
    /\ ixLast.result = Some(TRUE)
    /\ ixLast.before.total_files = 1 /\ Cardinality(dbFiles) = 1
    /\ ixLast.before.total_chunks = 1
    /\ ixLast.before.total_symbols = 1
    /\ RowsOf(dbChunks, Unwrap(ixLast.path)) # <<>>
    /\ RowsOf(dbSymbols, Unwrap(ixLast.path)) # <<>>

\* C6: index_file on a file that is in the index and has not changed since it
\* was last indexed reports it unchanged and leaves the file, chunk and symbol
\* row counts and the full-text document counts as they were.
C6_UnchangedFileIsSkipped ==
    (ixLast.op = "index_file" /\ ixLast.unchanged) =>
        /\ ixLast.result = Some(FALSE)
        /\ Counts = ixLast.before

\* A second index_file on an unchanged file that has chunk rows and
\* documents.
C6_Witness ==
    /\ ixLast.op = "index_file"
    /\ ixLast.unchanged
    /\ ixLast.prev = "index_file"
    /\ ixLast.before.total_chunks > 0
    /\ ixLast.before.pending > 0

\* C7: in every reachable state of the store every chunk row and every symbol
\* row references a file row that exists, and after delete_file or
\* delete_files_bulk no chunk or symbol row of a deleted file row is left.
C7_RowsReferenceFiles ==
    /\ \A k \in 1..Len(dbChunks) : HasFileRow(Store, dbChunks[k].file_path)
    /\ \A k \in 1..Len(dbSymbols) : HasFileRow(Store, dbSymbols[k].file_path)
    /\ ixLast.op \in {"delete_file", "delete_files_bulk"} =>
          \A path \in ixLast.removed :
              RowsOf(dbChunks, path) = <<>> /\ RowsOf(dbSymbols, path) = <<>>

\* C8: after clear_index the full-text index holds no document and the store
\* no symbol, chunk or file row, and the index_repository that follows it
\* skips no file as unchanged.
C8_ClearIndexEmptiesEverything ==
    /\ ixLast.op = "clear_index" =>
          /\ ftCommitted = <<>>
          /\ dbSymbols = <<>> /\ dbChunks = <<>> /\ dbFiles = {}
    /\ (ixLast.op = "index_repository" /\ ixLast.prev = "clear_index") =>
          ixLast.skipped = {}

\* C9: after the watcher has reloaded the ignore rules and reconciled, a path
\* the rules match is absent from the metadata store, from the full-text
\* index and from the index-state snapshot.
C9_IgnoredPathLeavesAllThree ==
    ixLast.op = "reconcile_ignored_files" =>
        \A path \in IxPaths :
            is_ignored(wtIgnore, path) =>
                /\ ~HasFileRow(Store, path)
                /\ RowsOf(dbChunks, path) = <<>>
                /\ RowsOf(dbSymbols, path) = <<>>
                /\ DocumentsOf(path) = <<>>
                /\ RowsOf(ftPending, path) = <<>>
                /\ wtState[path] = None

\* The lines of chunk k of the file that was chunked.
ChunkLines(k) ==
    SubSeq(Lines(ckContent), Unwrap(ckChunks)[k].start_line, Unwrap(ckChunks)[k].end_line)

\* The bracket depth accumulated over a sequence of lines.
RECURSIVE DepthOver(_)
DepthOver(lines) ==
    IF lines = <<>> THEN 0
    ELSE IF Len(lines) = 1 THEN BracketDelta(lines[1])
    ELSE DepthOver(SubSeq(lines, 1, Len(lines) \div 2))
         + DepthOver(SubSeq(lines, Len(lines) \div 2 + 1, Len(lines)))

\* Chunk k ends at the ceiling: MAX_CHUNK_LINES lines after its first line,
\* or the end of the file when that comes first.
EndsAtCeiling(k) ==
    Unwrap(ckChunks)[k].end_line
      = Min(Unwrap(ckChunks)[k].start_line - 1 + MAX_CHUNK_LINES, Len(Lines(ckContent)))

\* Chunk k ends with a blank line at which its bracket depth is zero.
EndsAtBalancedBlank(k) ==
    /\ Trim(ChunkLines(k)[Len(ChunkLines(k))]) = <<>>
    /\ DepthOver(ChunkLines(k)) = 0

ResponseTooLarge(k) ==
    /\ IsSome(mcLog[k].original)
    /\ EncodedBytes(Unwrap(mcLog[k].original)) > MAX_MCP_RESPONSE_BYTES

\* C12: on both transports, whenever the encoded response would exceed
\* MAX_MCP_RESPONSE_BYTES the line written is a payload_too_large envelope
\* with the id of the original response, the server goes on reading the
\* connection, and a request on the next line is answered.
C12_OversizedResponseReplaced ==
    \A k \in 1..Len(mcLog) :
        ResponseTooLarge(k) =>
            /\ IsSome(mcLog[k].written)
            /\ Unwrap(mcLog[k].written).id = Unwrap(mcLog[k].original).id
            /\ Unwrap(mcLog[k].written).error = None
            /\ IsSome(Unwrap(mcLog[k].written).result)
            /\ Unwrap(Unwrap(mcLog[k].written).result).error = "payload_too_large"
            /\ Unwrap(Unwrap(mcLog[k].written).result).operation = "response"
            /\ k = Len(mcLog) => mcOpen
            /\ (k < Len(mcLog) /\ mcLog[k + 1].line.kind = "request") =>
                  IsSome(mcLog[k + 1].written)

\* A request with an id whose list of files is too long was answered by the
\* envelope, and the get_slice on the next line by its payload.
C12_Witness ==
    /\ Len(mcLog) >= 2
    /\ ResponseTooLarge(1)
    /\ mcLog[1].line.id = Some(RequestId)
    /\ Unwrap(mcLog[1].written).id = Some(RequestId)
    /\ mcLog[2].line.method = "get_slice"
    /\ IsSome(mcLog[2].written)
    /\ Unwrap(Unwrap(mcLog[2].written).result).error = "none"

\* C13: on both transports every input line that is not empty is answered by
\* exactly one response line and an empty line by none (the log holds the
\* lines in input order, each with the line written for it); a line that is
\* not a JSON-RPC request is answered by error -32700 without an id.
C13_OneResponsePerLine ==
    \A k \in 1..Len(mcLog) :
        /\ mcLog[k].line.blank <=> mcLog[k].written = None
        /\ (mcLog[k].line.kind = "text" /\ ~mcLog[k].line.blank) =>
              /\ IsSome(mcLog[k].written)
              /\ Unwrap(mcLog[k].written).id = None
              /\ Unwrap(mcLog[k].written).error = Some(JsonRpcError(-32700))

\* C14: every response to a request that parsed carries the id of the
\* request, also when the handler failed.
C14_ResponseEchoesId ==
    \A k \in 1..Len(mcLog) :
        (mcLog[k].line.kind = "request" /\ IsSome(mcLog[k].written)) =>
            Unwrap(mcLog[k].written).id = mcLog[k].line.id

(***************************************************************************)
(* A caller's write_code session: a few calls on one file, single or       *)
(* chunked under one continuation id, each recorded with what it met and   *)
(* what it left.                                                           *)
(***************************************************************************)
MaxSessionCalls == 3

SessionFileContents == { <<"x", NL, "y", NL, "w", NL>>, <<"x", NL, "y", NL, "w">> }
SessionRanges == { <<2, 2>>, <<2, 3>> }
SessionReplacements == { <<"a">>, <<"b", NL>>, <<>> }

SessionCalls ==
    { WriteCall(PATH_A, range, replacement, None, chunking) :
        range \in SessionRanges, replacement \in SessionReplacements,
        chunking \in {None} \cup ({<<"s", "1">>} \X {None, Some(1), Some(2)} \X {None, Some(TRUE)}) }
    \cup
    { WriteCall(PATH_A, <<2, 2>>, OversizedReplacement, None, chunking) :
        chunking \in {None, <<<<"s", "1">>, Some(1), None>>} }

StartSession ==
    /\ wrDisk \in {[p \in WritePaths |-> IF p = PATH_A THEN Some(c) ELSE None] :
                      c \in SessionFileContents}
    /\ wrSessions = [sp \in SessionPaths |-> None]
    /\ wrOverflowChecks = FALSE
    /\ wrResponse = [kind |-> "none"]
    /\ wrRange = <<2, 2>>
    /\ wrCalls = MaxSessionCalls
    /\ wrLast = NotCalled
    /\ wrTrace = <<>>

\* The call as the trace keeps it: an oversized replacement by its size only.
CallSummary(arguments) ==
    [file_path |-> arguments.file_path,
     start_line |-> arguments.start_line,
     end_line |-> arguments.end_line,
     replacement |-> IF Len(arguments.replacement) > MAX_MCP_WRITE_REPLACEMENT_BYTES
                     THEN <<>> ELSE arguments.replacement,
     replacement_bytes |-> Len(arguments.replacement),
     chunked |-> IsSome(arguments.continuation_id),
     session_path |-> IF IsSome(arguments.continuation_id)
                      THEN write_session_path(Unwrap(arguments.continuation_id)) ELSE <<>>,
     chunk_index |-> IF IsSome(arguments.chunk_index) THEN Unwrap(arguments.chunk_index) ELSE 0,
     is_final_chunk |-> arguments.is_final_chunk = Some(TRUE)]

\* One write_code call of the session, with its effects on the file and on
\* the staging file.
SessionCall ==
    /\ wrCalls > 0
    /\ \E arguments \in SessionCalls :
       \E o \in {write_code(wrDisk, wrSessions, arguments, wrOverflowChecks)} :
         LET sp == write_session_path(Unwrap(arguments.continuation_id))
         IN /\ wrDisk' = IF o.written = None THEN wrDisk
                          ELSE [wrDisk EXCEPT ![arguments.file_path] = o.written]
            /\ wrSessions' = IF o.session_op.op = "save"
                              THEN [wrSessions EXCEPT ![sp] = Some(o.session_op.session)]
                              ELSE IF o.session_op.op = "remove"
                              THEN [wrSessions EXCEPT ![sp] = None]
                              ELSE wrSessions
            /\ wrResponse' = o.response
            /\ wrTrace' = Append(wrTrace,
                                 [call |-> CallSummary(arguments),
                                  disk |-> wrDisk,
                                  sessions |-> wrSessions,
                                  response |-> o.response,
                                  disk_after |-> wrDisk',
                                  sessions_after |-> wrSessions'])
    /\ wrCalls' = wrCalls - 1
    /\ UNCHANGED <<wrOverflowChecks, wrRange, wrLast, nonWrVars>>

InitSession == IdleChunk /\ IdleRead /\ StartSession /\ IdleLock /\ IdleIndex /\ IdleMcp /\ IdleBootstrap /\ IdleSearch /\ IdleState /\ IdleExit /\ IdleDebounce /\ IdleScan /\ IdleConcurrent /\ IdleSnapshot /\ IdleSave /\ IdleGlob

SpecSession == InitSession /\ [][SessionCall]_vars

\* The session stored for the call of trace entry k when the call arrived.
StoredSession(k) == wrTrace[k].sessions[wrTrace[k].call.session_path]

\* Whether trace entry k is a chunk past chunk 0, within the size limit, whose
\* (file_path, start_line, end_line, chunk_index) is not what the stored
\* session expects next.
OutOfStepChunk(k) ==
    /\ wrTrace[k].call.chunked
    /\ wrTrace[k].call.chunk_index > 0
    /\ wrTrace[k].call.replacement_bytes <= MAX_MCP_WRITE_REPLACEMENT_BYTES
    /\ IsSome(StoredSession(k))
    /\ <<wrTrace[k].call.file_path, wrTrace[k].call.start_line,
         wrTrace[k].call.end_line, wrTrace[k].call.chunk_index>>
       # <<Unwrap(StoredSession(k)).file_path, Unwrap(StoredSession(k)).start_line,
           Unwrap(StoredSession(k)).end_line, Unwrap(StoredSession(k)).next_chunk_index>>

\* C15: a chunk with chunk_index > 0 whose (file_path, start_line, end_line,
\* chunk_index) differs from the stored session's (file_path, start_line,
\* end_line, next_chunk_index), a replayed or skipped index included, is
\* answered invalid_continuation_state with the expected and the received
\* tuple, and leaves the stored session and the target file as they were.
C15_OutOfStepChunkRefused ==
    \A k \in 1..Len(wrTrace) :
        OutOfStepChunk(k) =>
            /\ wrTrace[k].response.kind = "result"
            /\ wrTrace[k].response.ok = FALSE
            /\ wrTrace[k].response.error = "invalid_continuation_state"
            /\ wrTrace[k].response.expected =
                   <<Unwrap(StoredSession(k)).file_path, Unwrap(StoredSession(k)).start_line,
                     Unwrap(StoredSession(k)).end_line,
                     Unwrap(StoredSession(k)).next_chunk_index>>
            /\ wrTrace[k].response.received =
                   <<wrTrace[k].call.file_path, wrTrace[k].call.start_line,
                     wrTrace[k].call.end_line, wrTrace[k].call.chunk_index>>
            /\ wrTrace[k].sessions_after = wrTrace[k].sessions
            /\ wrTrace[k].disk_after = wrTrace[k].disk

\* A session that took chunks 0 and 1 is sent chunk 1 again, with the range it
\* was opened on.
C15_Witness ==
    /\ Len(wrTrace) = 3
    /\ OutOfStepChunk(3)
    /\ wrTrace[3].call.chunk_index = 1
    /\ Unwrap(StoredSession(3)).next_chunk_index = 2
    /\ wrTrace[3].call.start_line = Unwrap(StoredSession(3)).start_line
    /\ wrTrace[3].call.end_line = Unwrap(StoredSession(3)).end_line
    /\ wrTrace[3].response.error = "invalid_continuation_state"

\* Whether trace entries 1..k are chunks 0..k-1 of one session, each within the
\* size limit, on the range and file of chunk 0, none before the k-th final.
ChunksInOrder(k) ==
    /\ k \in 1..Len(wrTrace)
    /\ \A j \in 1..k :
          /\ wrTrace[j].call.chunked
          /\ wrTrace[j].call.chunk_index = j - 1
          /\ wrTrace[j].call.replacement_bytes <= MAX_MCP_WRITE_REPLACEMENT_BYTES
          /\ wrTrace[j].call.session_path = wrTrace[1].call.session_path
          /\ wrTrace[j].call.file_path = wrTrace[1].call.file_path
          /\ wrTrace[j].call.start_line = wrTrace[1].call.start_line
          /\ wrTrace[j].call.end_line = wrTrace[1].call.end_line
          /\ j < k => ~wrTrace[j].call.is_final_chunk

\* The replacements of trace entries 1..k, one after the other.
RECURSIVE ChunksThrough(_)
ChunksThrough(k) ==
    IF k = 0 THEN <<>> ELSE ChunksThrough(k - 1) \o wrTrace[k].call.replacement

\* The file content with lines start_line..end_line replaced by the text.
WithLinesReplaced(content, start_line, end_line, text) ==
    LET lines == Lines(content)
        put == IF text = <<>> THEN <<>> ELSE SplitNL(text)
        new_lines == SubSeq(lines, 1, start_line - 1) \o put
                     \o SubSeq(lines, end_line + 1, Len(lines))
    IN Join(new_lines) \o (IF content # <<>> /\ content[Len(content)] = NL
                           THEN <<NL>> ELSE <<>>)

\* C16: when chunks 0..n of a session are sent in order and only chunk n is
\* final, each non-final chunk is accepted, moves the session's next chunk
\* index on by exactly one and leaves the target file as it was; the final
\* chunk replaces lines start_line..end_line by the chunks' replacements
\* joined in index order and deletes the session's staging file.
C16_InOrderChunksApplyOnce ==
    \A k \in 1..Len(wrTrace) :
        ChunksInOrder(k) =>
            LET e == wrTrace[k]
                sp == e.call.session_path
                before == IF k = 1 THEN 0 ELSE Unwrap(e.sessions[sp]).next_chunk_index
            IN /\ e.response.kind = "result" /\ e.response.ok
               /\ ~e.call.is_final_chunk =>
                     /\ IsSome(e.sessions_after[sp])
                     /\ Unwrap(e.sessions_after[sp]).next_chunk_index = before + 1
                     /\ e.response.next_chunk_index = before + 1
                     /\ e.disk_after = e.disk
               /\ e.call.is_final_chunk =>
                     /\ e.disk_after =
                           [e.disk EXCEPT ![e.call.file_path] =
                               Some(WithLinesReplaced(Unwrap(wrTrace[1].disk[e.call.file_path]),
                                                      e.call.start_line, e.call.end_line,
                                                      ChunksThrough(k)))]
                     /\ e.sessions_after[sp] = None

\* Three chunks in order, the first two with different non-empty texts, the
\* third final.
C16_Witness ==
    /\ ChunksInOrder(3)
    /\ wrTrace[3].call.is_final_chunk
    /\ wrTrace[1].call.replacement = <<"a">>
    /\ wrTrace[2].call.replacement = <<"b", NL>>
    /\ wrTrace[3].response.completed
    /\ wrTrace[3].disk_after # wrTrace[3].disk

\* Whether the call of trace entry k was refused: an error return, or a
\* result with ok = false.
Refused(k) ==
    \/ wrTrace[k].response.kind = "error"
    \/ wrTrace[k].response.kind = "result" /\ ~wrTrace[k].response.ok

\* Whether trace entry k is a chunk past chunk 0 that finds no staging file
\* for its continuation id.
ChunkWithoutSession(k) ==
    /\ wrTrace[k].call.chunked
    /\ wrTrace[k].call.chunk_index > 0
    /\ StoredSession(k) = None

\* C17: a chunk with chunk_index > 0 whose continuation id has no staging
\* file, never opened or already finalized, is refused, leaves the target file
\* as it was and creates no session; so a final chunk sent again after it was
\* applied is refused and the write is not applied a second time.
C17_ChunkWithoutSessionRefused ==
    /\ \A k \in 1..Len(wrTrace) :
          ChunkWithoutSession(k) =>
              /\ Refused(k)
              /\ wrTrace[k].disk_after = wrTrace[k].disk
              /\ wrTrace[k].sessions_after = wrTrace[k].sessions
    /\ \A k \in 2..Len(wrTrace) :
          ( /\ wrTrace[k - 1].call.chunked
            /\ wrTrace[k - 1].call.chunk_index > 0
            /\ wrTrace[k - 1].call.is_final_chunk
            /\ wrTrace[k - 1].response.kind = "result"
            /\ wrTrace[k - 1].response.ok
            /\ wrTrace[k].call = wrTrace[k - 1].call ) =>
              /\ Refused(k)
              /\ wrTrace[k].disk_after = wrTrace[k].disk

\* Chunk 0, then chunk 1 as the final chunk, applied, then the same final
\* chunk again.
C17_Witness ==
    /\ Len(wrTrace) = 3
    /\ wrTrace[2].call.chunk_index = 1
    /\ wrTrace[2].call.is_final_chunk
    /\ wrTrace[2].response.kind = "result"
    /\ wrTrace[2].response.ok
    /\ wrTrace[2].disk_after # wrTrace[2].disk
    /\ wrTrace[3].call = wrTrace[2].call
    /\ ChunkWithoutSession(3)
    /\ wrTrace[3].response.kind = "error"

\* Whether trace entry k is a write that succeeded and wrote the file: a
\* single call or the final chunk of a session.
WroteFile(k) ==
    /\ wrTrace[k].response.kind = "result"
    /\ wrTrace[k].response.ok
    /\ wrTrace[k].disk_after # wrTrace[k].disk

\* The lines a replacement text consists of.
LinesOfReplacement(text) == IF text = <<>> THEN <<>> ELSE SplitNL(text)

\* C20: a successful single-call write_code(start_line, end_line, replacement)
\* on a file of N lines leaves a file whose lines are the original lines
\* 1..start_line-1, the lines of the replacement and the original lines
\* end_line+1..N, and that ends with a newline exactly when the original did.
C20_SpliceKeepsRestAndNewline ==
    \A k \in 1..Len(wrTrace) :
        (WroteFile(k) /\ ~wrTrace[k].call.chunked) =>
            LET original == Unwrap(wrTrace[k].disk[wrTrace[k].call.file_path])
                result == Unwrap(wrTrace[k].disk_after[wrTrace[k].call.file_path])
                lines == Lines(original)
            IN /\ Lines(result) =
                      SubSeq(lines, 1, wrTrace[k].call.start_line - 1)
                      \o LinesOfReplacement(wrTrace[k].call.replacement)
                      \o SubSeq(lines, wrTrace[k].call.end_line + 1, Len(lines))
               /\ EndsWithNL(result) <=> EndsWithNL(original)

(***************************************************************************)
(* A caller reading a file with read_code or with get_slice, following     *)
(* continuation_start_line, each response kept with the call it answers.   *)
(***************************************************************************)
ReadTools == {"read_code", "get_slice"}

BudgetFiles ==
    { None, Some(<<>>),
      Some(<<"x", " ", "x", NL, "x", NL, NL, "x", "x", " ", "x", NL>>),
      Some(<<"x", CR, NL, "x", CR, NL>>),
      Some(<<"x", NL, " ", "x", NL, "x", NL, "x">>) }

StartBudget ==
    /\ rdFile \in BudgetFiles
    /\ rdArgs \in ReadArgs
    /\ rdCursor = None
    /\ rdPieces = <<>>
    /\ rdServed = <<>>
    /\ rdStatus = "reading"
    /\ rdTool \in ReadTools
    /\ rdResponse = None

\* The arguments read_code is called with: the caller's own under read_code,
\* what the get_slice handler builds from them under get_slice.
ToolArgs(tool, arguments) ==
    IF tool = "get_slice" THEN GetSliceArgs(arguments) ELSE arguments

\* One call of the tool and the caller's bookkeeping of its response.
ToolCall ==
    /\ rdStatus = "reading"
    /\ \E arguments \in {[rdArgs EXCEPT !.continuation_start_line = rdCursor]} :
       \E response \in {read_code(rdFile, ToolArgs(rdTool, arguments))} :
          /\ rdResponse' = Some([arguments |-> arguments, response |-> response])
          /\ IF response.kind = "ok"
             THEN /\ rdPieces' = Append(rdPieces, response.content)
                  /\ rdServed' = rdServed
                                 \o [k \in 1..(response.end_line - response.start_line + 1)
                                       |-> response.start_line + k - 1]
                  /\ rdCursor' = response.continuation_start_line
                  /\ rdStatus' = IF response.continuation_start_line = None
                                  THEN "done" ELSE "reading"
             ELSE /\ rdStatus' = IF response.kind = "payload_too_large"
                                  THEN "too_large" ELSE "error"
                  /\ UNCHANGED <<rdPieces, rdServed, rdCursor>>
    /\ UNCHANGED <<rdFile, rdArgs, rdTool, nonRdVars>>

InitBudget == IdleChunk /\ StartBudget /\ IdleWrite /\ IdleLock /\ IdleIndex /\ IdleMcp /\ IdleBootstrap /\ IdleSearch /\ IdleState /\ IdleExit /\ IdleDebounce /\ IdleScan /\ IdleConcurrent /\ IdleSnapshot /\ IdleSave /\ IdleGlob

SpecBudget == InitBudget /\ [][ToolCall]_vars

\* The lines the last call asked for: from continuation_start_line, else
\* start_line, else line 1, to end_line or the end of the file.
AskedLines(arguments) ==
    LET all_lines == Lines(Unwrap(rdFile))
        first == IF IsSome(arguments.continuation_start_line)
                 THEN Unwrap(arguments.continuation_start_line)
                 ELSE IF IsSome(arguments.start_line) THEN Unwrap(arguments.start_line)
                 ELSE 1
        last == IF IsSome(arguments.end_line) /\ Unwrap(arguments.end_line) < Len(all_lines)
                THEN Unwrap(arguments.end_line) ELSE Len(all_lines)
    IN [k \in 1..(last - first + 1) |-> <<first + k - 1, all_lines[first + k - 1]>>]

\* Whether a successful response to a call asking for the lines asked, under
\* the budgets given, returns a prefix of these lines within each budget
\* supplied, says truncated exactly when the prefix is shorter than
\* the lines asked, and then names the first line left out, else null.
HonoursBudgets(response, asked, budgets) ==
    LET returned == response.end_line - response.start_line + 1
    IN /\ returned \in 0..Len(asked)
       /\ response.content = Join([k \in 1..returned |-> asked[k][2]])
       /\ returned > 0 => response.start_line = asked[1][1]
       /\ IsSome(budgets.max_lines) => returned <= Unwrap(budgets.max_lines)
       /\ IsSome(budgets.max_bytes) => Len(response.content) <= Unwrap(budgets.max_bytes)
       /\ IsSome(budgets.max_tokens) =>
             estimate_tokens(response.content) <= Unwrap(budgets.max_tokens)
       /\ response.truncated <=> returned < Len(asked)
       /\ response.continuation_start_line =
             IF response.truncated THEN Some(asked[returned + 1][1]) ELSE None

\* C18 as stated: every successful read_code or get_slice response keeps the
\* returned lines within every budget the call supplies (max_lines, max_bytes,
\* max_tokens), has truncated true exactly when fewer lines are returned than
\* the requested range contains, and has continuation_start_line the number of
\* the first unserved line when truncated and null otherwise.
C18_EveryToolHonoursBudgets ==
    (IsSome(rdResponse) /\ Unwrap(rdResponse).response.kind = "ok") =>
        HonoursBudgets(Unwrap(rdResponse).response,
                       AskedLines(ToolArgs(rdTool, Unwrap(rdResponse).arguments)),
                       Unwrap(rdResponse).arguments)

\* C18 (amended): the same for read_code; get_slice takes no budgets from the
\* caller, and its responses keep within MAX_MCP_GET_SLICE_BYTES with
\* truncated and continuation_start_line as above.
C18_ReadCodeHonoursBudgets ==
    (IsSome(rdResponse) /\ Unwrap(rdResponse).response.kind = "ok") =>
        HonoursBudgets(Unwrap(rdResponse).response,
                       AskedLines(ToolArgs(rdTool, Unwrap(rdResponse).arguments)),
                       ToolArgs(rdTool, Unwrap(rdResponse).arguments))

\* A read_code call with all three budgets that returned fewer lines than
\* asked for, made on a continuation.
C18_Witness ==
    /\ rdTool = "read_code"
    /\ IsSome(rdResponse)
    /\ Unwrap(rdResponse).response.kind = "ok"
    /\ Unwrap(rdResponse).response.truncated
    /\ IsSome(Unwrap(rdResponse).arguments.continuation_start_line)
    /\ IsSome(rdArgs.max_lines) /\ IsSome(rdArgs.max_bytes) /\ IsSome(rdArgs.max_tokens)

\* Whether log entry k is a write_code request whose replacement is longer
\* than MAX_MCP_WRITE_REPLACEMENT_BYTES.
OversizedWrite(k) ==
    /\ mcLog[k].line.kind = "request"
    /\ mcLog[k].line.method = "write_code"
    /\ mcLog[k].line.replacement_bytes > MAX_MCP_WRITE_REPLACEMENT_BYTES

\* The files after the line of log entry k was served.
DiskAfterLine(k) == IF k < Len(mcLog) THEN mcLog[k + 1].disk ELSE wrDisk

\* C19: a write_code request, single or a chunk of a session, whose
\* replacement exceeds MAX_MCP_WRITE_REPLACEMENT_BYTES is answered with
\* ok = false and error payload_too_large, the target file stays as it was,
\* and a get_slice on the next line of the connection is served successfully.
C19_OversizedWriteRefused ==
    \A k \in 1..Len(mcLog) :
        OversizedWrite(k) =>
            /\ IsSome(mcLog[k].written)
            /\ IsSome(Unwrap(mcLog[k].written).result)
            /\ Unwrap(Unwrap(mcLog[k].written).result).error = "payload_too_large"
            /\ Unwrap(Unwrap(mcLog[k].written).result).payload.ok = FALSE
            /\ Unwrap(Unwrap(mcLog[k].written).result).payload.observed_bytes
                  = mcLog[k].line.replacement_bytes
            /\ DiskAfterLine(k) = mcLog[k].disk
            /\ k = Len(mcLog) => mcOpen
            /\ (k < Len(mcLog) /\ mcLog[k + 1].line.method = "get_slice") =>
                  /\ IsSome(mcLog[k + 1].written)
                  /\ IsSome(Unwrap(mcLog[k + 1].written).result)
                  /\ Unwrap(Unwrap(mcLog[k + 1].written).result).error = "none"
                  /\ Unwrap(Unwrap(mcLog[k + 1].written).result).payload.kind = "ok"
                  /\ ~Unwrap(Unwrap(mcLog[k + 1].written).result).is_error

\* A session opened by chunk 0, its oversized chunk 1 refused, and the
\* get_slice after it answered with the first line of the file.
C19_Witness ==
    /\ Len(mcLog) = 3
    /\ mcLog[1].line.method = "write_code"
    /\ mcLog[1].line.replacement_bytes <= MAX_MCP_WRITE_REPLACEMENT_BYTES
    /\ wrSessions[<<"s", "1">>] # None
    /\ OversizedWrite(2)
    /\ Unwrap(Unwrap(mcLog[2].written).result).error = "payload_too_large"
    /\ mcLog[3].line.method = "get_slice"
    /\ Unwrap(Unwrap(mcLog[3].written).result).payload.kind = "ok"
    /\ Unwrap(Unwrap(mcLog[3].written).result).payload.content = <<"x">>

(***************************************************************************)
(* Skill bootstrap: src/src/mcp/bootstrap.rs, called from both transports. *)
(* The TCP server keeps one injected flag for the process                  *)
(* (SKILL_INJECTED_TCP) and serves each connection on its own task; the    *)
(* stdio server keeps the flag in the server and has one connection.       *)
(***************************************************************************)
BOOTSTRAP_TOOL_ALIASES ==
    {"bootstrap_skill", "flashgrep-init", "fgrep-boot", "flashgrep_init", "fgrep_boot"}

is_bootstrap_tool(name) == name \in BOOTSTRAP_TOOL_ALIASES

MaxBootstrapSteps == 3

BootstrapConnections(transport) == IF transport = "tcp" THEN {1, 2} ELSE {1}

\* The tool called and its arguments trigger, force and compact.
BootstrapCalls ==
    [tool : {"fgrep-boot"},
     trigger : {None, Some("flashgrep_init"), Some("unknown")},
     force : {None, Some(TRUE)},
     compact : {None, Some(TRUE)}]

BootstrapPayload(ok, status, error, markdown) ==
    [ok |-> ok, status |-> status, error |-> error, skill_markdown |-> markdown]

\* build_bootstrap_payload up to the load of the flag (lines 27-59): the
\* payload it returns there, or None when it goes on to read the skill file.
BeforeSkillRead(call, injected) ==
    LET requested_trigger == IF IsSome(call.trigger) THEN Unwrap(call.trigger) ELSE call.tool
        force == call.force = Some(TRUE)
    IN IF ~is_bootstrap_tool(requested_trigger)
       THEN Some(BootstrapPayload(FALSE, "none", "invalid_trigger", FALSE))
       ELSE IF injected /\ ~force
       THEN Some(BootstrapPayload(TRUE, "already_injected", "none", FALSE))
       ELSE None

\* build_bootstrap_payload from the read of the skill file on (lines 61-116).
AfterSkillRead(call, skill) ==
    IF skill = "missing" THEN BootstrapPayload(FALSE, "none", "skill_not_found", FALSE)
    ELSE IF skill = "unreadable" THEN BootstrapPayload(FALSE, "none", "skill_unreadable", FALSE)
    ELSE BootstrapPayload(TRUE, "injected", "none", call.compact # Some(TRUE))

StoreInjectedBeforeRead(payload, injected) == TRUE

\* injected_state.store(true), reached only after the file was read (line 83)
StoreInjected(payload, injected) == payload.ok \/ injected

Returned(connection, call, payload, before, after) ==
    [connection |-> connection, call |-> call, payload |-> payload, skill |-> bsSkill,
     injected_before |-> before, injected_after |-> after]

StartBootstrap ==
    /\ bsTransport \in Transports
    /\ bsInjected = FALSE
    /\ bsSkill \in {"present", "missing", "unreadable"}
    /\ bsPending = [c \in {1, 2} |-> None]
    /\ bsLog = <<>>
    /\ bsSteps = MaxBootstrapSteps

\* A connection's request reaches build_bootstrap_payload, which returns at
\* once or loads the flag and goes on to the file.
BootstrapCall ==
    /\ bsSteps > 0
    /\ \E c \in BootstrapConnections(bsTransport), call \in BootstrapCalls :
         /\ bsPending[c] = None
         /\ \E early \in {BeforeSkillRead(call, bsInjected)} :
              IF IsSome(early)
              THEN /\ bsLog' = Append(bsLog, Returned(c, call, Unwrap(early),
                                                      bsInjected, bsInjected))
                   /\ UNCHANGED bsPending
              ELSE /\ bsPending' = [bsPending EXCEPT ![c] = Some(call)]
                   /\ UNCHANGED bsLog
    /\ bsSteps' = bsSteps - 1
    /\ UNCHANGED <<bsTransport, bsInjected, bsSkill, nonBsVars>>

\* The call reads the skill file and, if it could, stores the flag.
BootstrapRead ==
    /\ \E c \in BootstrapConnections(bsTransport) :
         /\ IsSome(bsPending[c])
         /\ \E payload \in {AfterSkillRead(Unwrap(bsPending[c]), bsSkill)} :
              /\ bsInjected' = StoreInjected(payload, bsInjected)
              /\ bsLog' = Append(bsLog, Returned(c, Unwrap(bsPending[c]), payload,
                                                 bsInjected, bsInjected'))
         /\ bsPending' = [bsPending EXCEPT ![c] = None]
    /\ UNCHANGED <<bsTransport, bsSkill, bsSteps, nonBsVars>>

\* skills/SKILL.md is written, removed or made unreadable.
SkillFileChanges ==
    /\ bsSteps > 0
    /\ \E skill \in {"present", "missing", "unreadable"} :
         skill # bsSkill /\ bsSkill' = skill
    /\ bsSteps' = bsSteps - 1
    /\ UNCHANGED <<bsTransport, bsInjected, bsPending, bsLog, nonBsVars>>

InitBootstrap == IdleChunk /\ IdleRead /\ IdleWrite /\ IdleLock /\ IdleIndex /\ IdleMcp /\ StartBootstrap /\ IdleSearch /\ IdleState /\ IdleExit /\ IdleDebounce /\ IdleScan /\ IdleConcurrent /\ IdleSnapshot /\ IdleSave /\ IdleGlob
NextBootstrap == BootstrapCall \/ BootstrapRead \/ SkillFileChanges
SpecBootstrap == InitBootstrap /\ [][NextBootstrap]_vars

\* Whether returned call j names a bootstrap trigger.
ValidTrigger(j) ==
    is_bootstrap_tool(IF IsSome(bsLog[j].call.trigger) THEN Unwrap(bsLog[j].call.trigger)
                      ELSE bsLog[j].call.tool)

\* C21: within one session, once a bootstrap call has returned "injected",
\* every later bootstrap call without force=true returns "already_injected"
\* and a call with force=true returns the payload again (the skill file being
\* readable); a bootstrap call that fails on its trigger or on the skill file
\* does not set the injected flag.
C21_InjectedOncePerSession ==
    /\ \A i, j \in 1..Len(bsLog) :
          ( /\ i < j
            /\ bsLog[i].connection = bsLog[j].connection
            /\ bsLog[i].payload.status = "injected"
            /\ ValidTrigger(j) ) =>
              /\ bsLog[j].call.force # Some(TRUE) =>
                    bsLog[j].payload.status = "already_injected"
              /\ (bsLog[j].call.force = Some(TRUE) /\ bsLog[j].skill = "present") =>
                    /\ bsLog[j].payload.status = "injected"
                    /\ bsLog[j].payload.skill_markdown = (bsLog[j].call.compact # Some(TRUE))
    /\ \A j \in 1..Len(bsLog) :
          ~bsLog[j].payload.ok => bsLog[j].injected_after = bsLog[j].injected_before

\* One connection was injected, then asked again without force and with it.
C21_Witness ==
    /\ Len(bsLog) = 3
    /\ \A j \in 1..3 : bsLog[j].connection = 1 /\ ValidTrigger(j)
    /\ bsLog[1].payload.status = "injected"
    /\ bsLog[2].call.force = None /\ bsLog[2].payload.status = "already_injected"
    /\ bsLog[3].call.force = Some(TRUE) /\ bsLog[3].payload.status = "injected"

\* C22: the first bootstrap call made on a connection, with a valid trigger
\* and the skill file readable, returns "injected" whatever bootstrap calls
\* other connections to the same server made before or make meanwhile.
C22_FirstCallOnConnectionInjects ==
    \A j \in 1..Len(bsLog) :
        ( /\ \A i \in 1..(j - 1) : bsLog[i].connection # bsLog[j].connection
          /\ ValidTrigger(j)
          /\ bsLog[j].skill = "present" ) =>
            bsLog[j].payload.status = "injected"

(***************************************************************************)
(* Searcher::query_with_options: src/src/search/mod.rs.  The index is the  *)
(* list of the chunks matching the query in descending-score order, a      *)
(* chunk being named by its rank; what the path and content filters do     *)
(* with a chunk is given with the index.                                   *)
(***************************************************************************)
MaxSearchCalls == 4
FETCH_FACTOR == 30
FETCH_CEILING == 10000

\* QueryOptions::from_mcp_args (lines 46-99): limit.max(1)
from_mcp_args(args) == [limit |-> IF args.limit < 1 THEN 1 ELSE args.limit, offset |-> args.offset]

\* path_matches and matches_query on the chunk of the given rank: in a dense
\* index every chunk passes both; else the hits pass both, and of the others
\* the odd ranks fail on the path and the even ranks on the content.
path_matches(index, rank) == index.dense \/ rank \in index.hits \/ rank % 2 = 0
matches_query(index, rank) == index.dense \/ rank \in index.hits

\* TopDocs::with_limit(fetch_limit) (lines 186-194): the ranks fetched.
fetch_limit(options) ==
    LET target_count == options.offset + options.limit
        wanted == IF target_count * FETCH_FACTOR > target_count
                  THEN target_count * FETCH_FACTOR ELSE target_count
    IN Min(wanted, FETCH_CEILING)

NextOffsetFromZero(options, results) == Some(Len(results))

\* options.offset.saturating_add(results.len()) (lines 273-274)
NextOffset(options, results) == Some(options.offset + Len(results))

\* query_with_options (lines 146-283) for a non-empty text.  The loop passes
\* over the fetched chunks in order, drops those a filter refuses, skips the
\* first offset of the rest and stops when it holds limit results.
query_with_options(index, options) ==
    LET top_docs == [rank \in 1..Min(fetch_limit(options), index.size) |-> rank]
        passing == SelectSeq(top_docs,
                             LAMBDA rank : path_matches(index, rank) /\ matches_query(index, rank))
        results == SubSeq(passing, options.offset + 1,
                          Min(options.offset + options.limit, Len(passing)))
        truncated == Len(results) >= options.limit
    IN [results |-> results,
        truncated |-> truncated,
        next_offset |-> IF truncated THEN NextOffset(options, results) ELSE None]

SearchIndexes ==
    { [size |-> 95, hits |-> hits, dense |-> FALSE] : hits \in SUBSET {1, 2, 30, 31, 60, 61, 91} }
    \cup { [size |-> FETCH_CEILING + 50, hits |-> {}, dense |-> TRUE] }

SearchArgs == [limit : {0, 1, 2}, offset : {0, 1, 3, FETCH_CEILING - 1}]

StartSearch ==
    /\ srIndex \in SearchIndexes
    /\ srArgs \in SearchArgs
    /\ srCursor = Some(srArgs.offset)
    /\ srLog = <<>>
    /\ srSteps = MaxSearchCalls

\* One call of the caller's paging loop: the offset is the first one, then
\* the previous response's next_offset.
QueryCall ==
    /\ srSteps > 0
    /\ IsSome(srCursor)
    /\ \E options \in {from_mcp_args([srArgs EXCEPT !.offset = Unwrap(srCursor)])} :
       \E response \in {query_with_options(srIndex, options)} :
          /\ srLog' = Append(srLog, [options |-> options, response |-> response])
          /\ srCursor' = response.next_offset
    /\ srSteps' = srSteps - 1
    /\ UNCHANGED <<srIndex, srArgs, nonSrVars>>

InitSearch == IdleChunk /\ IdleRead /\ IdleWrite /\ IdleLock /\ IdleIndex /\ IdleMcp /\ IdleBootstrap /\ StartSearch /\ IdleState /\ IdleExit /\ IdleDebounce /\ IdleScan /\ IdleConcurrent /\ IdleSnapshot /\ IdleSave /\ IdleGlob
SpecSearch == InitSearch /\ [][QueryCall]_vars

\* The candidates of the call of log entry k that pass both filters: the
\* ranks among those fetched for it.
Surviving(k) ==
    {rank \in 1..Min(fetch_limit(srLog[k].options), srIndex.size) :
        path_matches(srIndex, rank) /\ matches_query(srIndex, rank)}

\* The position, from 0, of a chunk among the chunks of the index that pass
\* both filters.
PositionOf(rank) ==
    Cardinality({r \in 1..(rank - 1) : path_matches(srIndex, r) /\ matches_query(srIndex, r)})

\* C23: for a fixed index and fixed options a query returns the surviving
\* candidates at positions offset..offset+limit-1 in descending-score order;
\* truncated is true iff limit results were returned, and next_offset is then
\* the position after the last one returned, so that calls passing
\* next_offset back as offset return consecutive segments, without a gap and
\* without a duplicate.
C23_PagesAreConsecutiveSegments ==
    \A k \in 1..Len(srLog) :
        LET options == srLog[k].options
            response == srLog[k].response
            results == response.results
            left == Cardinality(Surviving(k)) - options.offset
        IN /\ Len(results) = Min(options.limit, IF left > 0 THEN left ELSE 0)
           /\ \A i \in 1..Len(results) :
                 /\ results[i] \in Surviving(k)
                 /\ PositionOf(results[i]) = options.offset + i - 1
           /\ response.truncated <=> Len(results) = options.limit
           /\ response.next_offset =
                 IF response.truncated THEN Some(options.offset + Len(results)) ELSE None
           /\ k > 1 =>
                 /\ srLog[k - 1].response.truncated
                 /\ options.offset
                       = srLog[k - 1].options.offset + Len(srLog[k - 1].response.results)
                 /\ results # <<>> =>
                       PositionOf(results[1])
                          = PositionOf(srLog[k - 1].response.results[
                                          Len(srLog[k - 1].response.results)]) + 1

\* Three pages of one result each, the second and the third from beyond what
\* the call before them fetched.
C23_Witness ==
    /\ Len(srLog) >= 3
    /\ srIndex.hits = {1, 31, 61}
    /\ srLog[1].response.results = <<1>>
    /\ srLog[2].response.results = <<31>>
    /\ srLog[3].response.results = <<61>>
    /\ srLog[3].response.truncated

(***************************************************************************)
(* IndexState: src/src/index/state.rs.  save encodes the state as JSON and *)
(* load decodes it; strings are encoded with serde_json's escapes and      *)
(* numbers in decimal, object by object and field by field.                *)
(***************************************************************************)
INDEX_STATE_VERSION == 1
MaxStateSteps == 4
Now == 100

\* A byte of a path that is not UTF-8.
NON_UTF8 == "<ff>"
BACKSLASH == "\\"
QUOTE == "\""

\* format!("{}", n) and str::parse for a signed integer.
FormatI64(n) == IF n < 0 THEN <<"-">> \o FormatU32(0 - n) ELSE FormatU32(n)
ParseI64(text) ==
    IF text # <<>> /\ text[1] = "-"
    THEN IF ParseU32(Tail(text)) = None THEN None ELSE Some(0 - Unwrap(ParseU32(Tail(text))))
    ELSE ParseU32(text)

EscapeCharKeepingBackslash(c) ==
    IF c = QUOTE THEN <<BACKSLASH, QUOTE>>
    ELSE IF c = NL THEN <<BACKSLASH, "n">>
    ELSE <<c>>

\* One character of a JSON string as serde_json writes it.
EscapeChar(c) ==
    IF c = QUOTE THEN <<BACKSLASH, QUOTE>>
    ELSE IF c = BACKSLASH THEN <<BACKSLASH, BACKSLASH>>
    ELSE IF c = NL THEN <<BACKSLASH, "n">>
    ELSE <<c>>

\* The content of a JSON string as serde_json writes it.
RECURSIVE EscapeJson(_)
EscapeJson(text) ==
    IF text = <<>> THEN <<>> ELSE EscapeChar(text[1]) \o EscapeJson(Tail(text))

\* The string a JSON string's content stands for, None when it is not one.
RECURSIVE UnescapeJson(_)
UnescapeJson(text) ==
    IF text = <<>> THEN Some(<<>>)
    ELSE IF text[1] = BACKSLASH
    THEN IF Len(text) < 2 \/ text[2] \notin {BACKSLASH, QUOTE, "n"} THEN None
         ELSE LET rest == UnescapeJson(SubSeq(text, 3, Len(text)))
              IN IF rest = None THEN None
                 ELSE Some(<<IF text[2] = "n" THEN NL ELSE text[2]>> \o Unwrap(rest))
    ELSE IF text[1] \in {QUOTE, NL} THEN None
    ELSE LET rest == UnescapeJson(Tail(text))
         IN IF rest = None THEN None ELSE Some(<<text[1]>> \o Unwrap(rest))

\* IndexState::new (lines 39-45)
NewIndexState == [version |-> INDEX_STATE_VERSION, last_updated |-> Now, files |-> <<>>]

\* serde_json::to_string_pretty(self) (line 81): None when a path is not
\* UTF-8, which serde refuses to serialize.
to_string_pretty(state) ==
    IF \E path \in DOMAIN state.files : \E i \in 1..Len(path) : path[i] = NON_UTF8
    THEN None
    ELSE Some([version |-> FormatU32(state.version),
               last_updated |-> FormatI64(state.last_updated),
               files |-> { [key |-> EscapeJson(path),
                            size |-> FormatU32(state.files[path].size),
                            mtime |-> FormatI64(state.files[path].mtime),
                            content_hash |-> EscapeJson(state.files[path].content_hash)]
                           : path \in DOMAIN state.files }])

\* serde_json::from_str(&content) (line 55): None when a field does not parse.
from_str(content) ==
    LET keys == { UnescapeJson(e.key) : e \in content.files }
        entry(path) == CHOOSE e \in content.files : UnescapeJson(e.key) = Some(path)
    IN IF \/ ParseU32(content.version) = None
          \/ ParseI64(content.last_updated) = None
          \/ None \in keys
          \/ \E e \in content.files :
                \/ ParseU32(e.size) = None
                \/ ParseI64(e.mtime) = None
                \/ UnescapeJson(e.content_hash) = None
       THEN None
       ELSE Some([version |-> Unwrap(ParseU32(content.version)),
                  last_updated |-> Unwrap(ParseI64(content.last_updated)),
                  files |-> [path \in { Unwrap(k) : k \in keys } |->
                               [size |-> Unwrap(ParseU32(entry(path).size)),
                                mtime |-> Unwrap(ParseI64(entry(path).mtime)),
                                content_hash |->
                                    Unwrap(UnescapeJson(entry(path).content_hash))]]])

StatePaths ==
    { <<"a">>, <<BACKSLASH>>, <<BACKSLASH, QUOTE>>, <<BACKSLASH, "n">>, <<"a", NL>>,
      <<NON_UTF8>> }
StateMetadata ==
    { [size |-> 0, mtime |-> 0 - 1, content_hash |-> <<"a", "b", "1">>],
      [size |-> 10, mtime |-> 12, content_hash |-> <<"0", "f">>] }

\* A snapshot left by a newer version of the program.
NewerSnapshot ==
    [version |-> INDEX_STATE_VERSION + 1, last_updated |-> 7,
     files |-> [path \in {<<"a">>} |-> [size |-> 3, mtime |-> 4, content_hash |-> <<"c">>]]]

StartState ==
    /\ stState = NewIndexState
    /\ stFile \in {None, to_string_pretty(NewerSnapshot)}
    /\ stSaved = None
    /\ stLast = [op |-> "none", ok |-> TRUE]
    /\ stSteps = MaxStateSteps

\* update_file (lines 92-95)
StateUpdateFile ==
    /\ stSteps > 0
    /\ \E path \in StatePaths, metadata \in StateMetadata :
         stState' = [stState EXCEPT
                       !.files = [p \in DOMAIN stState.files \cup {path} |->
                                    IF p = path THEN metadata ELSE stState.files[p]],
                       !.last_updated = Now]
    /\ stLast' = [op |-> "update_file", ok |-> TRUE]
    /\ stSteps' = stSteps - 1
    /\ UNCHANGED <<stFile, stSaved, nonStVars>>

\* remove_file (lines 98-101)
StateRemoveFile ==
    /\ stSteps > 0
    /\ \E path \in DOMAIN stState.files :
         stState' = [stState EXCEPT
                       !.files = [p \in DOMAIN stState.files \ {path} |-> stState.files[p]],
                       !.last_updated = Now]
    /\ stLast' = [op |-> "remove_file", ok |-> TRUE]
    /\ stSteps' = stSteps - 1
    /\ UNCHANGED <<stFile, stSaved, nonStVars>>

\* save (lines 73-89): the encoded state is written to the temporary file
\* and renamed over index-state.json; an encoding error leaves both alone.
StateSave ==
    /\ stSteps > 0
    /\ \E content \in {to_string_pretty(stState)} :
         IF content = None
         THEN /\ stLast' = [op |-> "save", ok |-> FALSE]
              /\ UNCHANGED <<stFile, stSaved>>
         ELSE /\ stFile' = content
              /\ stSaved' = Some(stState)
              /\ stLast' = [op |-> "save", ok |-> TRUE]
    /\ stSteps' = stSteps - 1
    /\ UNCHANGED <<stState, nonStVars>>

\* load (lines 48-70): a new state when there is no file, else the decoded
\* one; the caller goes on with what load returned.
StateLoad ==
    /\ stSteps > 0
    /\ IF stFile = None
       THEN /\ stState' = NewIndexState
            /\ stLast' = [op |-> "load", ok |-> TRUE]
       ELSE \E state \in {from_str(Unwrap(stFile))} :
               IF state = None
               THEN /\ stLast' = [op |-> "load", ok |-> FALSE]
                    /\ UNCHANGED stState
               ELSE /\ stState' = Unwrap(state)
                    /\ stLast' = [op |-> "load", ok |-> TRUE]
    /\ stSteps' = stSteps - 1
    /\ UNCHANGED <<stFile, stSaved, nonStVars>>

InitState == IdleChunk /\ IdleRead /\ IdleWrite /\ IdleLock /\ IdleIndex /\ IdleMcp /\ IdleBootstrap /\ IdleSearch /\ StartState /\ IdleExit /\ IdleDebounce /\ IdleScan /\ IdleConcurrent /\ IdleSnapshot /\ IdleSave /\ IdleGlob
NextState == StateUpdateFile \/ StateRemoveFile \/ StateSave \/ StateLoad
SpecState == InitState /\ [][NextState]_vars

\* C24: saving the snapshot and loading it back yields a snapshot with the
\* same files map, every path with the same size, mtime and content hash, and
\* the same version.
C24_SaveThenLoadPreserves ==
    (stLast.op = "load" /\ IsSome(stSaved)) =>
        /\ stLast.ok
        /\ stState.files = Unwrap(stSaved).files
        /\ stState.version = Unwrap(stSaved).version

\* A snapshot of the newer version with two paths, one holding a backslash
\* and a quote, was saved and loaded.
C24_Witness ==
    /\ stLast.op = "load"
    /\ IsSome(stSaved)
    /\ stState.version = INDEX_STATE_VERSION + 1
    /\ <<BACKSLASH, QUOTE>> \in DOMAIN stState.files
    /\ Cardinality(DOMAIN stState.files) = 2

(***************************************************************************)
(* The process's exit code: src/src/main.rs, with FlashgrepError of        *)
(* src/src/lib.rs.                                                         *)
(***************************************************************************)
Commands ==
    {"index", "start", "stop", "watchers", "query", "files", "symbol", "slice",
     "mcp", "mcp-stdio", "stats", "clear"}

ErrorKinds ==
    {"Io", "Database", "Search", "IndexNotFound", "Index", "Config", "FileWatcher",
     "McpServer", "Task"}

\* FlashgrepError::exit_code (lib.rs 141-155)
exit_code(kind) ==
    CASE kind = "Io" -> 1
      [] kind = "Database" -> 2
      [] kind = "Search" -> 3
      [] kind = "IndexNotFound" -> 4
      [] kind = "Index" -> 4
      [] kind = "Config" -> 5
      [] kind = "FileWatcher" -> 6
      [] kind = "McpServer" -> 7
      [] kind = "Task" -> 8

\* main (main.rs 5-14): ExitCode::SUCCESS, or ExitCode::from(1) for any error.
main(outcome) == IF outcome = "Ok" THEN 0 ELSE 1

StartExit ==
    /\ xtCommand \in Commands
    /\ xtOutcome \in {"Ok"} \cup ErrorKinds
    /\ xtExit = None

\* cli::run has returned and main ends the process.
Exit ==
    /\ xtExit = None
    /\ xtCommand # "none"
    /\ xtExit' = Some(main(xtOutcome))
    /\ UNCHANGED <<xtCommand, xtOutcome, nonXtVars>>

InitExit == IdleChunk /\ IdleRead /\ IdleWrite /\ IdleLock /\ IdleIndex /\ IdleMcp /\ IdleBootstrap /\ IdleSearch /\ IdleState /\ StartExit /\ IdleDebounce /\ IdleScan /\ IdleConcurrent /\ IdleSnapshot /\ IdleSave /\ IdleGlob
SpecExit == InitExit /\ [][Exit]_vars

\* C25: a command that fails with an error of a given kind ends the process
\* with that kind's code (1 I/O, 2 database, 3 search, 4 index missing or
\* index state, 5 config, 6 watcher, 7 RPC, 8 task), and a command that
\* succeeds ends it with 0.
C25_ExitCodeNamesErrorKind ==
    IsSome(xtExit) =>
        Unwrap(xtExit) = (IF xtOutcome = "Ok" THEN 0 ELSE exit_code(xtOutcome))

(***************************************************************************)
(* Guarded sessions: write_code calls that supply preconditions and        *)
(* ranges of every shape, on a file other programs may rewrite between     *)
(* two calls.                                                              *)
(***************************************************************************)
MaxGuardedCalls == 2

GuardedFileContents == { <<"x", NL, "y", NL>>, <<"x", NL, "y">>, <<>> }
GuardedRanges == { <<0, 1>>, <<1, 0>>, <<2, 1>>, <<1, 1>>, <<1, 2>>, <<2, 2>>, <<1, 3>> }
GuardedPreconditions ==
    { None,
      Some([NoPrecondition EXCEPT !.expected_file_hash = Some(Sha256(<<"x", NL, "y", NL>>))]),
      Some([NoPrecondition EXCEPT !.expected_start_line_text = Some(<<"x">>)]) }

GuardedCalls(own_range) ==
    { WriteCall(PATH_A, own_range, <<"z">>, precondition, chunking) :
        precondition \in GuardedPreconditions,
        chunking \in {None} \cup ({<<"s", "1">>} \X {None, Some(1)} \X {None, Some(TRUE)}) }

StartGuarded ==
    /\ wrDisk \in {[p \in WritePaths |-> IF p = PATH_A THEN Some(c) ELSE None] :
                      c \in GuardedFileContents}
    /\ wrSessions = [sp \in SessionPaths |-> None]
    /\ wrOverflowChecks \in BOOLEAN
    /\ wrResponse = [kind |-> "none"]
    /\ wrRange \in GuardedRanges
    /\ wrCalls = MaxGuardedCalls
    /\ wrLast = NotCalled
    /\ wrTrace = <<>>

\* One write_code call, with its effects on the file and on the staging file;
\* the trace keeps the precondition the call supplied.
GuardedCall ==
    /\ wrCalls > 0
    /\ \E arguments \in GuardedCalls(wrRange) :
       \E o \in {write_code(wrDisk, wrSessions, arguments, wrOverflowChecks)} :
         LET sp == write_session_path(Unwrap(arguments.continuation_id))
         IN /\ wrDisk' = IF o.written = None THEN wrDisk
                          ELSE [wrDisk EXCEPT ![arguments.file_path] = o.written]
            /\ wrSessions' = IF o.session_op.op = "save"
                              THEN [wrSessions EXCEPT ![sp] = Some(o.session_op.session)]
                              ELSE IF o.session_op.op = "remove"
                              THEN [wrSessions EXCEPT ![sp] = None]
                              ELSE wrSessions
            /\ wrResponse' = o.response
            /\ wrTrace' = Append(wrTrace,
                                 [call |-> CallSummary(arguments),
                                  precondition |-> arguments.precondition,
                                  disk |-> wrDisk,
                                  sessions |-> wrSessions,
                                  response |-> o.response,
                                  disk_after |-> wrDisk',
                                  sessions_after |-> wrSessions'])
    /\ wrCalls' = wrCalls - 1
    /\ UNCHANGED <<wrOverflowChecks, wrRange, wrLast, nonWrVars>>

InitGuarded == IdleChunk /\ IdleRead /\ StartGuarded /\ IdleLock /\ IdleIndex /\ IdleMcp /\ IdleBootstrap /\ IdleSearch /\ IdleState /\ IdleExit /\ IdleDebounce /\ IdleScan /\ IdleConcurrent /\ IdleSnapshot /\ IdleSave /\ IdleGlob
NextGuarded == GuardedCall \/ ExternalEdit
SpecGuarded == InitGuarded /\ [][NextGuarded]_vars

\* Whether the precondition supplied with trace entry j differs from the file
\* as trace entry k met it.
PreconditionOfMismatchesAt(j, k) ==
    SuppliedPreconditionMismatches(wrTrace[k].disk,
                                   [precondition |-> wrTrace[j].precondition,
                                    file_path |-> wrTrace[j].call.file_path,
                                    start_line |-> wrTrace[j].call.start_line,
                                    end_line |-> wrTrace[j].call.end_line])

\* Whether trace entry j opened with a precondition the session whose final
\* chunk is trace entry k.
OpenedWithPrecondition(j, k) ==
    /\ j < k
    /\ wrTrace[j].call.chunked
    /\ wrTrace[j].call.chunk_index = 0
    /\ ~wrTrace[j].call.is_final_chunk
    /\ IsSome(wrTrace[j].precondition)
    /\ wrTrace[j].response.kind = "result"
    /\ wrTrace[j].response.ok
    /\ wrTrace[k].call.chunked
    /\ wrTrace[k].call.chunk_index > 0
    /\ wrTrace[k].call.is_final_chunk
    /\ wrTrace[k].call.session_path = wrTrace[j].call.session_path
    /\ StoredSession(k) = wrTrace[j].sessions_after[wrTrace[j].call.session_path]
    /\ IsSome(StoredSession(k))

\* Whether the range of trace entry k lies inside the file as the call met it.
RangeInsideFile(k) ==
    /\ IsSome(wrTrace[k].disk[wrTrace[k].call.file_path])
    /\ 1 <= wrTrace[k].call.start_line
    /\ wrTrace[k].call.start_line <= wrTrace[k].call.end_line
    /\ wrTrace[k].call.end_line
          <= Len(Lines(Unwrap(wrTrace[k].disk[wrTrace[k].call.file_path])))

\* C26: the final chunk of a session opened with preconditions that no longer
\* match the file as the final chunk finds it (its range still inside the
\* file) returns precondition_failed and writes nothing.
C26_FinalChunkRechecksPreconditions ==
    \A k \in 1..Len(wrTrace) : \A j \in 1..Len(wrTrace) :
        (OpenedWithPrecondition(j, k) /\ RangeInsideFile(k)
            /\ PreconditionOfMismatchesAt(j, k)) =>
            /\ wrTrace[k].response.kind = "result"
            /\ ~wrTrace[k].response.ok
            /\ wrTrace[k].response.error = "precondition_failed"
            /\ wrTrace[k].disk_after = wrTrace[k].disk

\* Whether trace entry k is a call that applies a write (a single call or a
\* final chunk that continues its session), without a precondition, on a
\* file that exists.
AppliesWrite(k) ==
    /\ ~wrTrace[k].call.chunked \/ wrTrace[k].call.is_final_chunk
    /\ wrTrace[k].precondition = None
    /\ IsSome(wrTrace[k].disk[wrTrace[k].call.file_path])
    /\ (wrTrace[k].call.chunked /\ wrTrace[k].call.chunk_index > 0) =>
          /\ IsSome(StoredSession(k))
          /\ Unwrap(StoredSession(k)).file_path = wrTrace[k].call.file_path
          /\ Unwrap(StoredSession(k)).start_line = wrTrace[k].call.start_line
          /\ Unwrap(StoredSession(k)).end_line = wrTrace[k].call.end_line
          /\ Unwrap(StoredSession(k)).next_chunk_index = wrTrace[k].call.chunk_index

\* C27: a write whose start_line or end_line is 0, whose start_line exceeds
\* its end_line, whose end_line exceeds the line count of the file as it is
\* when the write is applied, or whose target is empty, is rejected with a
\* validation error and leaves the file as it was, in the single-call and in
\* the chunked path.
C27_InvalidRangeRejected ==
    \A k \in 1..Len(wrTrace) :
        (AppliesWrite(k) /\ ~RangeInsideFile(k)) =>
            /\ wrTrace[k].response.kind = "error"
            /\ wrTrace[k].disk_after = wrTrace[k].disk

(***************************************************************************)
(* One acquisition of the watcher lock that no other acquisition           *)
(* interleaves with: the other process is a watcher that holds the lock,   *)
(* a watcher killed while holding it, or no watcher at all.                *)
(***************************************************************************)
\* What a lock file left behind can hold when nobody holds the lock: the PID
\* of a dead process, of a process without a watcher, or no PID.
LeftoverLocks ==
    { None }
    \cup { Some([inode |-> 0, content |-> FormatU32(pid) \o tail]) :
             pid \in WatcherPids \cup {DeadPid}, tail \in {<<NL>>, <<>>} }
    \cup { Some([inode |-> 0, content |-> text]) :
             text \in {<<"x">>, <<>>, <<"-", "1">>, <<" ">> \o FormatU32(DeadPid) \o <<NL>>} }

\* The lock file a watcher that acquired the lock wrote.
LockOf(pid) == Some([inode |-> 0, content |-> FormatU32(pid) \o <<NL>>])

StartAcquire ==
    /\ lkPc \in { [p \in WatcherPids |-> IF p = a THEN "exists" ELSE other] :
                    a \in WatcherPids, other \in {"held", "idle"} }
    /\ lkAlive \in { alive \in SUBSET WatcherPids :
                       \A p \in WatcherPids : lkPc[p] = "exists" => p \in alive }
    /\ lkFile \in IF \E q \in WatcherPids : lkPc[q] = "held"
                  THEN { LockOf(q) : q \in {p \in WatcherPids : lkPc[p] = "held"} }
                  ELSE LeftoverLocks
    /\ lkHandle = [p \in WatcherPids |-> None]
    /\ lkInodes = 0

InitAcquire == IdleChunk /\ IdleRead /\ IdleWrite /\ StartAcquire /\ IdleIndex /\ IdleMcp /\ IdleBootstrap /\ IdleSearch /\ IdleState /\ IdleExit /\ IdleDebounce /\ IdleScan /\ IdleConcurrent /\ IdleSnapshot /\ IdleSave /\ IdleGlob

\* The steps of acquire_watcher_lock alone.
NextAcquire ==
    \E p \in WatcherPids :
        \/ LockExists(p)
        \/ ReadAndProbe(p)
        \/ RemoveStale(p)
        \/ CreateNew(p)
        \/ WritePid(p)

SpecAcquire == InitAcquire /\ [][NextAcquire]_vars

\* Whether the process is the one calling acquire_watcher_lock.
Acquiring(p) ==
    \/ lkPc[p] \in {"exists", "read", "remove", "create", "write", "failed"}
    \/ lkPc[p] = "held" /\ IsSome(lkHandle[p])

\* Whether the lock file is the one the acquisition found.
FoundLock == IsSome(lkFile) /\ Unwrap(lkFile).inode = 0

\* Whether the lock file records the PID of a live process.
LockNamesLivePid ==
    /\ IsSome(lkFile)
    /\ LET pid == ParseU32(Trim(Unwrap(lkFile).content))
       IN IsSome(pid) /\ Unwrap(pid) \in lkAlive

\* C28: an acquisition that finds a lock file whose PID is not live removes
\* it, creates the file anew, records its own PID and succeeds; one that finds
\* the PID alive fails ("already running") and leaves the lock file as it was.
C28_StaleLockReplacedLiveLockKept ==
    \A p \in WatcherPids :
        Acquiring(p) =>
            /\ (FoundLock /\ LockNamesLivePid) => lkPc[p] \in {"exists", "read", "failed"}
            /\ (FoundLock /\ ~LockNamesLivePid) => lkPc[p] \in {"exists", "read", "remove"}
            /\ lkPc[p] = "failed" => (FoundLock /\ LockNamesLivePid)
            /\ lkPc[p] = "held" =>
                  lkFile = Some([inode |-> 1, content |-> FormatU32(p) \o <<NL>>])

\* A watcher was killed holding the lock, and the acquisition replaced its
\* lock file with one that records the acquirer's PID.
C28_Witness ==
    \E p \in WatcherPids : \E q \in WatcherPids \ lkAlive :
        /\ lkPc[q] = "held"
        /\ lkPc[p] = "held"
        /\ IsSome(lkHandle[p])
        /\ lkFile = Some([inode |-> 1, content |-> FormatU32(p) \o <<NL>>])

(***************************************************************************)
(* The watcher's event loop: src/src/watcher/mod.rs, process_events.       *)
(* Instants are kept as the milliseconds elapsed since them, up to AgeCap. *)
(***************************************************************************)
MaxFsEvents == 3
AgeCap == 1000
\* What one iteration takes: its 10 ms sleep and the work before it, rounded
\* to the grain of the model.
IterationMs == {250, 500}

\* debounce_duration as FileWatcher::new sets it (line 68)
DEBOUNCE_DURATION_MS == 500

\* debounce_duration (line 68): Duration::from_millis(500), whatever the
\* configuration holds.
debounce_duration(config_debounce_ms) == DEBOUNCE_DURATION_MS

\* is_ignore_file (lines 325-330)
IsIgnoreFile(path) == path = IGNORE_FILE

\* should_ignore_path (lines 284-323) on the paths of the model: the file
\* under target/ is skipped.
WatcherSkips(path) == path = "target/a.rs"

Older(age, ms) == Min(age + ms, AgeCap)

StartDebounce ==
    /\ deDebounceMs \in {500, 1000}
    /\ deRx = <<>>
    /\ dePending = [p \in DebouncePaths |-> None]
    /\ deSinceUpdate = 0
    /\ deRunning = TRUE
    /\ deEvents = MaxFsEvents
    /\ deEntered = [p \in DebouncePaths |-> 0]
    /\ deHandled = [p \in DebouncePaths |-> 0]
    /\ deReady = {}

\* The notify callback (lines 162-169, 194-201): the event goes to the channel.
FsEvent ==
    /\ deEvents > 0
    /\ \E path \in DebouncePaths : deRx' = Append(deRx, path)
    /\ deEvents' = deEvents - 1
    /\ UNCHANGED <<deDebounceMs, dePending, deSinceUpdate, deRunning, deEntered, deHandled,
                   deReady, nonDeVars>>

\* pending_changes after the event taken from the channel, if any (lines
\* 241-258).
AfterReceive(pending, rx) ==
    IF rx = <<>> \/ IsIgnoreFile(Head(rx)) \/ WatcherSkips(Head(rx)) THEN pending
    ELSE [pending EXCEPT ![Head(rx)] = Some(0)]

\* The pending paths whose debounce period has passed (lines 262-267).
ReadyChanges(pending, since_update, debounce) ==
    IF since_update >= debounce
    THEN {p \in DebouncePaths : IsSome(pending[p]) /\ Unwrap(pending[p]) >= debounce}
    ELSE {}

\* One iteration of the loop of process_events (lines 239-280): take one event
\* from the channel, dispatch the changes that are ready, sleep.  reloaded is
\* whether reload_ignore_patterns_and_reconcile succeeded; when it fails the
\* function returns the error.
Iterate ==
    /\ deRunning
    /\ \E ms \in IterationMs, reloaded \in BOOLEAN :
         IF deRx # <<>> /\ IsIgnoreFile(Head(deRx)) /\ ~reloaded
         THEN /\ deRunning' = FALSE
              /\ deRx' = Tail(deRx)
              /\ deReady' = {}
              /\ UNCHANGED <<dePending, deSinceUpdate, deEntered, deHandled>>
         ELSE LET received == AfterReceive(dePending, deRx)
                  ready == ReadyChanges(received, deSinceUpdate,
                                        debounce_duration(deDebounceMs))
              IN /\ reloaded
                 /\ deRx' = IF deRx = <<>> THEN deRx ELSE Tail(deRx)
                 /\ dePending' = [p \in DebouncePaths |->
                                    IF p \in ready \/ received[p] = None THEN None
                                    ELSE Some(Older(Unwrap(received[p]), ms))]
                 /\ deSinceUpdate' = IF deSinceUpdate >= debounce_duration(deDebounceMs)
                                     THEN Older(0, ms) ELSE Older(deSinceUpdate, ms)
                 /\ deEntered' = [p \in DebouncePaths |->
                                    IF dePending[p] = None /\ received[p] # None
                                    THEN deEntered[p] + 1 ELSE deEntered[p]]
                 /\ deHandled' = [p \in DebouncePaths |->
                                    IF p \in ready THEN deHandled[p] + 1 ELSE deHandled[p]]
                 /\ deReady' = { <<p, Unwrap(received[p])>> : p \in ready }
                 /\ UNCHANGED deRunning
    /\ UNCHANGED <<deDebounceMs, deEvents, nonDeVars>>

InitDebounce == IdleChunk /\ IdleRead /\ IdleWrite /\ IdleLock /\ IdleIndex /\ IdleMcp /\ IdleBootstrap /\ IdleSearch /\ IdleState /\ IdleExit /\ StartDebounce /\ IdleScan /\ IdleConcurrent /\ IdleSnapshot /\ IdleSave /\ IdleGlob
NextDebounce == FsEvent \/ Iterate
SpecDebounce == InitDebounce /\ [][NextDebounce]_vars

\* The loop keeps iterating: it runs on a thread of its own and each
\* iteration ends with a 10 ms sleep.
FairDebounce == SpecDebounce /\ WF_vars(Iterate)

\* Each entry into pending_changes is answered by at most one dispatch, and
\* by none while the path is still pending.
OncePerBurst ==
    \A p \in DebouncePaths :
        deEntered[p] = deHandled[p] + (IF IsSome(dePending[p]) THEN 1 ELSE 0)

\* A pending path is dispatched in the end, while the loop runs.
DispatchedInTheEnd ==
    \A p \in DebouncePaths :
        IsSome(dePending[p]) ~> (dePending[p] = None \/ ~deRunning)

\* No dispatch earlier than 500 ms after the path's most recent event.
NotBeforeHalfASecond == \A d \in deReady : d[2] >= DEBOUNCE_DURATION_MS

\* C29: a path in the pending-changes map is dispatched once per burst, not
\* before debounce_ms (the configured value, 500 by default) have passed since
\* the most recent event the loop received for it.
C29_DispatchedOnceAfterDebounceMs ==
    /\ OncePerBurst
    /\ \A d \in deReady : d[2] >= deDebounceMs

(***************************************************************************)
(* The watcher process: what process_events and the file system do while   *)
(* `flashgrep start` runs.  index_repository and clear_index belong to the *)
(* index command; the watcher calls neither.                               *)
(***************************************************************************)
NextWatch ==
    \/ WriteFile
    \/ RemoveFile
    \/ EditIgnoreFile
    \/ ReceiveEvent
    \/ ReloadIgnoreAndReconcile
    \/ HandleChange

SpecWatch == InitIndex /\ [][NextWatch]_vars

\* What every HandleChange step, and no other step of the watcher process,
\* does: pending_changes.remove(&path) (line 270).
Dispatching ==
    \E path \in wtPending :
        /\ ixSteps > 0
        /\ wtPending' = wtPending \ {path}
        /\ ixSteps' = ixSteps - 1

\* The loop of process_events keeps running: a change that is pending is
\* handled.
FairWatch == SpecWatch /\ WF_<<wtPending, ixSteps>>(Dispatching)

\* A pending change is handled in the end.
PendingIsHandled ==
    \A path \in IxPaths : (path \in wtPending) ~> (path \notin wtPending \/ ixSteps = 0)

\* The watcher has just dispatched a change for the path and index_file has
\* re-indexed it.
Reindexed(path) ==
    /\ ixLast.op = "index_file"
    /\ ixLast.path = Some(path)
    /\ ixLast.result = Some(TRUE)

\* Queries see the documents of the path as it was last indexed.
Published(path) ==
    IsSome(ixIndexedAs[path]) =>
        \A k \in 1..Len(LastIndexedChunks(path)) :
            \E n \in 1..Len(ftCommitted) :
                ftCommitted[n] = add_chunk_to_tantivy(LastIndexedChunks(path)[k])

\* C30: after the watcher dispatched a change for a path and index_file
\* re-indexed it, a commit of the full-text writer follows in the end, and
\* queries see the path's new documents.
C30_ReindexedIsPublishedInTheEnd ==
    \A path \in IxPaths : Reindexed(path) ~> Published(path)

(***************************************************************************)
(* Startup with an initial scan: watch_with_initial_scan of                *)
(* src/src/watcher/mod.rs and InitialScanner::scan of                      *)
(* src/src/index/initial_scanner.rs.                                       *)
(***************************************************************************)
MaxScanSteps == 2

ScanOlder == [content |-> <<"f", "n", " ", "a", NL>>, mtime |-> 1]
ScanNewer == [content |-> <<"x", NL, "f", "n", " ", "n">>, mtime |-> 2]

\* The repository as the previous run of the watcher left it indexed, and as
\* it is when the watcher starts again.
PreviousDisks ==
    { [path \in IxPaths |-> IF path = IX_A THEN a ELSE Some(ScanOlder)] :
        a \in {None, Some(ScanOlder)} }
CurrentDisks ==
    { [path \in IxPaths |-> IF path = IX_A THEN a ELSE b] :
        a \in {None, Some(ScanOlder), Some(ScanNewer)}, b \in {None, Some(ScanOlder)} }

AllEnforced == [insert_file |-> TRUE, insert_chunks_batch |-> TRUE,
                insert_symbols_batch |-> TRUE]

\* The index and the snapshot of a repository whose files were all indexed
\* and committed.
IndexedAs(previous) ==
    index_repository(clear_all(Store), <<>>, <<>>, previous,
                     CHOOSE order \in Orders(scan(previous, <<"#", NL>>)) : TRUE,
                     AllEnforced)

StartScan ==
    /\ dbFkDefault \in BOOLEAN
    /\ ixIndexedAs \in PreviousDisks
    /\ dbFiles = IndexedAs(ixIndexedAs).db.files
    /\ dbChunks = IndexedAs(ixIndexedAs).db.chunks
    /\ dbSymbols = IndexedAs(ixIndexedAs).db.symbols
    /\ ftPending = <<>>
    /\ ftCommitted = IndexedAs(ixIndexedAs).committed
    /\ ixDisk \in CurrentDisks
    /\ ixIgnoreFile = <<"#", NL>>
    /\ ixLast = NoOperation
    /\ ixSteps = MaxScanSteps
    /\ wtIgnore = from_file(ixIgnoreFile)
    /\ wtPending = {}
    /\ wtState = [path \in IxPaths |->
                    IF ixIndexedAs[path] = None THEN None
                    ELSE Some(StateEntry(Unwrap(ixIndexedAs[path])))]
    /\ scPhase = "start"
    /\ scAdded = {}
    /\ scModified = {}
    /\ scDeleted = {}

\* IndexState::is_file_changed (state.rs 112-117)
is_file_changed(state, path, metadata) ==
    IF state[path] = None THEN TRUE ELSE Unwrap(state[path]) # metadata

\* InitialScanner::scan (initial_scanner.rs 85-219): how the files on disk
\* compare with the snapshot, and the snapshot afterwards.
InitialScan(state, disk, patterns) ==
    LET previous_paths == {path \in IxPaths : IsSome(state[path])}
        current_paths == {path \in IxPaths :
                             IsSome(disk[path]) /\ should_include(patterns, path)}
        added == current_paths \ previous_paths
        modified == {path \in current_paths \cap previous_paths :
                        is_file_changed(state, path, StateEntry(Unwrap(disk[path])))}
    IN [files_added |-> added,
        files_modified |-> modified,
        files_deleted |-> previous_paths \ current_paths,
        state |-> [path \in IxPaths |->
                     IF path \in current_paths THEN Some(StateEntry(Unwrap(disk[path])))
                     ELSE None]]

\* process_synthetic_changes (watcher/mod.rs 217-231): the scan's errors are
\* logged; nothing is queued and nothing is indexed.
process_synthetic_changes(pending, result) == pending

nonIxScVars == <<ckVars, rdVars, wrVars, lkVars, mcVars, bsVars, srVars, stVars, xtVars, deVars, cwVars, svVars, saVars, glVars>>
nonCwVars == <<ckVars, rdVars, wrVars, lkVars, ixVars, mcVars, bsVars, srVars, stVars, xtVars, deVars, scVars, svVars, saVars, glVars>>
nonSvVars == <<ckVars, rdVars, wrVars, lkVars, ixVars, mcVars, bsVars, srVars, stVars, xtVars, deVars, scVars, cwVars, saVars, glVars>>
nonSaVars == <<ckVars, rdVars, wrVars, lkVars, ixVars, mcVars, bsVars, srVars, stVars, xtVars, deVars, scVars, cwVars, svVars, glVars>>
nonGlVars == <<ckVars, rdVars, wrVars, lkVars, ixVars, mcVars, bsVars, srVars, stVars, xtVars, deVars, scVars, cwVars, svVars, saVars>>

\* watch_with_initial_scan up to its call of process_events (lines 156-187):
\* perform_initial_scan, which saves the snapshot, then
\* process_synthetic_changes.
PerformInitialScan ==
    /\ scPhase = "start"
    /\ \E result \in {InitialScan(wtState, ixDisk, wtIgnore)} :
         /\ wtState' = result.state
         /\ wtPending' = process_synthetic_changes(wtPending, result)
         /\ scAdded' = result.files_added
         /\ scModified' = result.files_modified
         /\ scDeleted' = result.files_deleted
    /\ scPhase' = "watching"
    /\ UNCHANGED <<dbFiles, dbChunks, dbSymbols, dbFkDefault, ftPending, ftCommitted,
                   ixDisk, ixIgnoreFile, ixIndexedAs, ixLast, ixSteps, wtIgnore,
                   nonIxScVars>>

InitScan == IdleChunk /\ IdleRead /\ IdleWrite /\ IdleLock /\ StartScan /\ IdleMcp /\ IdleBootstrap /\ IdleSearch /\ IdleState /\ IdleExit /\ IdleDebounce /\ IdleConcurrent /\ IdleSnapshot /\ IdleSave /\ IdleGlob

\* process_events runs once the scan and process_synthetic_changes are done.
NextScan ==
    \/ PerformInitialScan
    \/ scPhase = "watching" /\ NextWatch

SpecScan == InitScan /\ [][NextScan]_vars

\* The startup runs to its end and the loop of process_events keeps running.
FairScan ==
    SpecScan /\ WF_scPhase(PerformInitialScan) /\ WF_<<wtPending, ixSteps>>(Dispatching)

\* The index holds the path as it is on disk, or the file is gone again.
IndexedAsOnDisk(path) ==
    \/ ixDisk[path] = None
    \/ IsSome(ixIndexedAs[path]) /\ ixIndexedAs[path] = ixDisk[path]

\* The index holds nothing of the path, or the file is there again.
RemovedFromIndices(path) ==
    \/ IsSome(ixDisk[path])
    \/ /\ ixIndexedAs[path] = None
       /\ ~HasFileRow(Store, path)
       /\ DocumentsOf(path) = <<>>

\* C31: every file the initial scan classifies as added or modified is
\* indexed afterwards, and every file it classifies as deleted is removed
\* from both indices afterwards.
C31_ScanChangesAreHandled ==
    \A path \in IxPaths :
        /\ (path \in scAdded \cup scModified) ~> IndexedAsOnDisk(path)
        /\ (path \in scDeleted) ~> RemovedFromIndices(path)

\* C32: no failure while handling a file-system event, a failed
\* reload_ignore_patterns_and_reconcile included, ends the loop of
\* process_events: the loop is running in every state.
C32_LoopSurvivesFailures == deRunning

(***************************************************************************)
(* index_file with a call that fails: src/src/index/engine.rs 101-159.     *)
(* Each store call is a statement or a transaction of its own.             *)
(***************************************************************************)
\* The fallible calls of index_file after the skip check, in their order.
FailPoints ==
    <<"read_to_string", "delete_file_chunks", "delete_file_symbols", "insert_file",
      "add_chunk_to_tantivy", "insert_chunks_batch", "insert_symbols_batch">>

\* Whether the call named reached is made before the one that fails.
Before(reached, fail_at) ==
    \E i, j \in 1..Len(FailPoints) :
        FailPoints[i] = reached /\ FailPoints[j] = fail_at /\ i < j

\* index_file (lines 101-159) when the call fail_at returns an error: the
\* calls before it have had their effect, `?` returns at it.
index_file_failing(db, pending, disk, file_path, fail_at) ==
    LET file == Unwrap(disk[file_path])
        metadata == from_path(file_path, file)
        chunks == chunk_file(file_path, file.content, metadata.last_modified)
        all_symbols == SymbolsOf(chunks, file_path)
        done(call) == Before(call, fail_at)
        no_chunks == IF done("delete_file_chunks")
                     THEN delete_file_chunks(db, file_path) ELSE db
        no_symbols == IF done("delete_file_symbols")
                      THEN delete_file_symbols(no_chunks, file_path) ELSE no_chunks
        filed == IF done("insert_file")
                 THEN insert_file(no_symbols, metadata, TRUE) ELSE no_symbols
        chunked == IF done("insert_chunks_batch") /\ chunks # <<>>
                   THEN insert_chunks_batch(filed, chunks, TRUE).db ELSE filed
    IN IF disk[file_path] = None \/ ~needs_reindex(db, file_path, metadata.last_modified)
       THEN index_file(db, pending, disk, file_path, AllEnforced)
       ELSE [db |-> chunked,
             pending |-> IF done("add_chunk_to_tantivy")
                         THEN pending \o [k \in 1..Len(chunks) |->
                                            add_chunk_to_tantivy(chunks[k])]
                         ELSE pending,
             result |-> None]

\* Indexer::index_file(path), in which at most one call fails.
IndexFileFailing ==
    \E path \in IxPaths, fail \in {"none"} \cup {FailPoints[i] : i \in 1..Len(FailPoints)} :
        \E r \in {IF fail = "none"
                  THEN index_file(Store, ftPending, ixDisk, path, AllEnforced)
                  ELSE index_file_failing(Store, ftPending, ixDisk, path, fail)} :
            /\ IxStep
            /\ SetStore(r.db)
            /\ ftPending' = r.pending
            /\ ixIndexedAs' = IF r.result = Some(TRUE)
                              THEN [ixIndexedAs EXCEPT ![path] = ixDisk[path]]
                              ELSE ixIndexedAs
            /\ ixLast' = Last("index_file", Some(path), r.result,
                              InIndexUnchanged(path), {}, {})
            /\ UNCHANGED <<dbFkDefault, ftCommitted, ixDisk, ixIgnoreFile, wtIgnore,
                           wtPending, wtState, nonIxVars>>

NextFailing == WriteFile \/ IndexFileFailing
SpecFailing == InitIndex /\ [][NextFailing]_vars

\* The file, chunk and symbol rows of the path are those of the file as it
\* is on disk.
RowsOfNewVersion(path) ==
    LET file == Unwrap(ixDisk[path])
        chunks == chunk_file(path, file.content, file.mtime)
    IN /\ {f \in dbFiles : f.file_path = path} = {from_path(path, file)}
       /\ RowsOf(dbChunks, path) = chunks
       /\ RowsOf(dbSymbols, path) = SymbolsOf(chunks, path)

\* C33: after an index_file(P) that failed, P is not recorded with the
\* modification time of the file on disk unless its chunk and symbol rows
\* are those of that version: the next index_file(P) does not skip it.
C33_FailedReindexIsNotSkippedNext ==
    \A path \in IxPaths :
        (/\ ixLast.op = "index_file"
         /\ ixLast.path = Some(path)
         /\ ixLast.result = None
         /\ IsSome(ixDisk[path])) =>
            \/ needs_reindex(Store, path, Unwrap(ixDisk[path]).mtime)
            \/ RowsOfNewVersion(path)

\* The step is a call of index_file on the path, by the index command or by
\* the watcher's handle_change.
IndexFileStep(path) ==
    /\ ixSteps' = ixSteps - 1
    /\ ixLast'.op = "index_file"
    /\ ixLast'.path = Some(path)
    /\ wtPending' \subseteq wtPending
    /\ UNCHANGED <<ixDisk, ixIgnoreFile>>

\* The file's content is not the content it was last indexed with.
ContentDiffers(path) ==
    /\ IsSome(ixIndexedAs[path])
    /\ IsSome(ixDisk[path])
    /\ Unwrap(ixIndexedAs[path]).content # Unwrap(ixDisk[path]).content

\* C34: index_file on a file whose content differs from what was last
\* indexed re-indexes it and does not skip it as unchanged, whether or not
\* its modification time in whole seconds has changed.
C34_ChangedContentIsReindexed ==
    [][\A path \in IxPaths :
          (IndexFileStep(path) /\ ContentDiffers(path)) => ixLast'.result # Some(FALSE)]_vars

------------------------------------------------------------------------------
(* write_code on several connections: src/src/mcp/mod.rs 56-66 spawns one
   task per connection on the multi-threaded runtime of src/src/main.rs, and
   write_code (src/src/mcp/code_io.rs 163-268) takes no lock *)

ConcurrentFileContents == { <<"x", NL, "y", NL>>, <<"x", NL, "y">> }
ConcurrentReplacements == { <<"p">>, <<"q">> }
\* One line is replaced by one line, so the ranges stay inside the file.
ConcurrentRanges == { <<1, 1>>, <<2, 2>> }

\* The preconditions of a caller that saw the file as `content`, of one that
\* saw another file, and none.
ConcurrentPreconditions(content) ==
    { None,
      Some([NoPrecondition EXCEPT !.expected_file_hash = Some(Sha256(content))]),
      Some([NoPrecondition EXCEPT !.expected_file_hash = Some(Sha256(<<"o">>))]) }

StartConcurrent ==
    /\ cwBefore \in ConcurrentFileContents
    /\ cwFile = cwBefore
    /\ cwCall \in [Connections ->
                     { [pc |-> "called",
                        arguments |-> WriteCall(PATH_A, range, replacement, precondition, None)] :
                         range \in ConcurrentRanges,
                         replacement \in ConcurrentReplacements,
                         precondition \in ConcurrentPreconditions(cwBefore) }]

\* std::fs::read_to_string(&path) (line 204) on one connection's task.
ReadOriginal(c) ==
    /\ cwCall[c].pc = "called"
    /\ cwCall' = [cwCall EXCEPT ![c] = [pc |-> "read",
                                        arguments |-> cwCall[c].arguments,
                                        original_content |-> cwFile]]
    /\ UNCHANGED <<cwBefore, cwFile>>
    /\ UNCHANGED nonCwVars

\* The rest of the call (lines 205-268) on what it read: the preconditions
\* are checked on original_content and std::fs::write stores the new content.
CheckAndWrite(c) ==
    /\ cwCall[c].pc = "read"
    /\ \E overflow_checks \in BOOLEAN :
         LET disk == [p \in WritePaths |->
                        IF p = PATH_A THEN Some(cwCall[c].original_content) ELSE None]
             o == write_code(disk, [sp \in SessionPaths |-> None],
                             cwCall[c].arguments, overflow_checks)
         IN /\ cwFile' = IF o.written = None THEN cwFile ELSE Unwrap(o.written)
            /\ cwCall' = [cwCall EXCEPT ![c] = [pc |-> "done",
                                                arguments |-> cwCall[c].arguments,
                                                original_content |-> cwCall[c].original_content,
                                                response |-> o.response]]
    /\ UNCHANGED cwBefore
    /\ UNCHANGED nonCwVars

InitConcurrent == IdleChunk /\ IdleRead /\ IdleWrite /\ IdleLock /\ IdleIndex /\ IdleMcp /\ IdleBootstrap /\ IdleSearch /\ IdleState /\ IdleExit /\ IdleDebounce /\ IdleScan /\ StartConcurrent /\ IdleSnapshot /\ IdleSave /\ IdleGlob
NextConcurrent == \E c \in Connections : ReadOriginal(c) \/ CheckAndWrite(c)
SpecConcurrent == InitConcurrent /\ [][NextConcurrent]_vars

\* The call of a connection expected the hash the file had before the calls.
ExpectedHashBefore(c) ==
    /\ IsSome(cwCall[c].arguments.precondition)
    /\ Unwrap(cwCall[c].arguments.precondition).expected_file_hash = Some(Sha256(cwBefore))

Succeeded(c) ==
    /\ cwCall[c].pc = "done"
    /\ cwCall[c].response.kind = "result"
    /\ cwCall[c].response.ok

FailedPrecondition(c) ==
    /\ cwCall[c].pc = "done"
    /\ cwCall[c].response.kind = "result"
    /\ ~cwCall[c].response.ok
    /\ cwCall[c].response.error = "precondition_failed"

\* C35: of two write_code calls on the same file on different connections,
\* each expecting the hash the file had before either ran, at most one
\* returns ok = true and the other returns precondition_failed.
C35_ConcurrentWritesOneSucceeds ==
    (/\ cwCall[1].pc = "done" /\ cwCall[2].pc = "done"
     /\ ExpectedHashBefore(1) /\ ExpectedHashBefore(2))
    => \/ Succeeded(1) /\ FailedPrecondition(2)
       \/ Succeeded(2) /\ FailedPrecondition(1)

\* The line a call of the loop starts at: the cursor the previous response
\* gave, or the initial start_line (1 when absent).
CallStartLine ==
    IF IsSome(rdCursor) THEN Unwrap(rdCursor)
    ELSE IF IsSome(rdArgs.start_line) THEN Unwrap(rdArgs.start_line) ELSE 1

\* The call was answered with a page (neither an error nor payload_too_large).
PageReturned == rdPieces' # rdPieces

\* The range the loop was asked for holds at least one line.
RangeNonEmpty ==
    /\ IsSome(rdFile)
    /\ CallStartLine \in 1..Len(Lines(Unwrap(rdFile)))
    /\ IsSome(rdArgs.end_line) => Unwrap(rdArgs.end_line) >= CallStartLine

\* The first line of the call does not fit the byte budget (the server's
\* ceiling when none is given) or the token budget.
FirstLineDoesNotFit ==
    LET line == Lines(Unwrap(rdFile))[CallStartLine]
    IN \/ Len(line) > (IF IsSome(rdArgs.max_bytes)
                       THEN Unwrap(rdArgs.max_bytes) ELSE MAX_MCP_READ_BYTES)
       \/ ~WithinBudget(rdArgs.max_tokens, estimate_tokens(line))

\* One call of the loop over a non-empty range: a page holds at least one
\* line and its continuation_start_line is past the line the call started at;
\* a first line that does not fit gives payload_too_large and no page.
PageAdvances ==
    (rdStatus = "reading" /\ rdStatus' # "error" /\ RangeNonEmpty) =>
        /\ PageReturned =>
              /\ Len(rdServed') > Len(rdServed)
              /\ IsSome(rdCursor') => Unwrap(rdCursor') > CallStartLine
        /\ FirstLineDoesNotFit <=> rdStatus' = "too_large"

\* The loop has made no more calls returning a page than the range has lines.
CallsWithinLines ==
    (rdPieces # <<>> /\ rdServed # <<>>) => Len(rdPieces) <= Len(RequestedLines)

\* C36: every successful read_code response over a non-empty range returns at
\* least one line, so its continuation_start_line is greater than the line
\* the call started at and the continuation loop finishes within as many
\* calls as the range has lines; when even the first line does not fit the
\* budgets the call returns payload_too_large, never an empty truncated page.
C36_EveryPageAdvances == [][PageAdvances]_vars /\ []CallsWithinLines

\* A loop whose first two calls each returned a page of at least one line and
\* whose third found a line that does not fit.
C36_Witness ==
    /\ rdStatus = "too_large"
    /\ Len(rdPieces) = 2
    /\ Len(rdServed) >= 2

------------------------------------------------------------------------------
(* The watcher's periodic save of the snapshot: src/src/watcher/mod.rs,
   update_index_state_for_file (394-435) and handle_change (335-352) *)

\* "% 100" of line 429.
SAVE_EVERY == 100

MaxSnapshotFiles == 101
MaxUnsaved == 100

\* The snapshot as loaded at startup and saved by the initial scan, of any
\* number of files.
StartSnapshot ==
    /\ svLen \in 0..MaxSnapshotFiles
    /\ svUnsaved = 0

\* update_index_state_for_file (394-435) after a file was indexed: update_file
\* inserts the file's entry or replaces the one it has, and the snapshot is
\* saved when the number of its files is a multiple of 100.
UpdateIndexStateForFile ==
    /\ svUnsaved \in 0..(MaxUnsaved - 1)
    /\ \E in_snapshot \in BOOLEAN :
         /\ in_snapshot => svLen > 0
         /\ ~in_snapshot => svLen < MaxSnapshotFiles
         /\ svLen' = IF in_snapshot THEN svLen ELSE svLen + 1
    /\ svUnsaved' = IF svLen' % SAVE_EVERY = 0 THEN 0 ELSE svUnsaved + 1
    /\ UNCHANGED nonSvVars

\* handle_change on a deleted or ignored file (337-352): remove_file drops the
\* entry and nothing is saved.
RemoveFromIndexState ==
    /\ svUnsaved >= 0
    /\ svLen > 0
    /\ svLen' = svLen - 1
    /\ UNCHANGED svUnsaved
    /\ UNCHANGED nonSvVars

InitSnapshot == IdleChunk /\ IdleRead /\ IdleWrite /\ IdleLock /\ IdleIndex /\ IdleMcp /\ IdleBootstrap /\ IdleSearch /\ IdleState /\ IdleExit /\ IdleDebounce /\ IdleScan /\ IdleConcurrent /\ StartSnapshot /\ IdleSave /\ IdleGlob
NextSnapshot == UpdateIndexStateForFile \/ RemoveFromIndexState
SpecSnapshot == InitSnapshot /\ [][NextSnapshot]_vars

\* C37: while the watcher runs, the snapshot is saved after every 100th update
\* of it, so at most 99 updates are unsaved at any time.
C37_AtMost99UpdatesUnsaved == svUnsaved <= SAVE_EVERY - 1

------------------------------------------------------------------------------
(* IndexState::save step by step: src/src/index/state.rs 73-89 *)

\* File names as their dot-separated parts.
INDEX_STATE_JSON == <<"index-state", "json">>
IndexStatePaths == { INDEX_STATE_JSON, <<"state">> }

\* Path::with_extension: the extension of the file name is replaced, or
\* added when the name has none.
with_extension(path, extension) ==
    IF Len(path) > 1 THEN SubSeq(path, 1, Len(path) - 1) \o <<extension>>
    ELSE path \o <<extension>>

\* The temporary file written in place of the target.
temp_path_in_place(path) == path

\* path.with_extension("tmp") (line 80)
temp_path(path) == with_extension(path, "tmp")

\* The name made by appending ".tmp" to the path.
AppendedTmp(path) == path \o <<"tmp">>

SaveNames(path) == {path, temp_path(path), AppendedTmp(path)}

\* A file holding a whole content, and one holding a proper prefix of it.
Complete(content) == [complete |-> TRUE, content |-> content]
Partial(content) == [complete |-> FALSE, content |-> content]

\* The file a snapshot is saved as, None when serde refuses it.
SavedAs(state) ==
    IF to_string_pretty(state) = None THEN None
    ELSE Some(Complete(Unwrap(to_string_pretty(state))))

\* The snapshots saved: an empty one, one with entries, and one with a path
\* serde refuses.
SavedStates ==
    { NewIndexState, NewerSnapshot,
      [NewIndexState EXCEPT !.files = [p \in {<<"a">>, <<BACKSLASH>>} |->
                                          [size |-> 10, mtime |-> 12, content_hash |-> <<"0", "f">>]]],
      [NewIndexState EXCEPT !.files = [p \in {<<NON_UTF8>>} |->
                                          [size |-> 0, mtime |-> 0, content_hash |-> <<"0">>]]] }

\* Before a save the target is absent or holds an earlier snapshot, and the
\* temporary file is absent or is what a save that crashed left.
StartSave ==
    /\ saPath \in IndexStatePaths
    /\ saState \in SavedStates
    /\ saPrevious \in {None, SavedAs(NewIndexState), SavedAs(NewerSnapshot)}
    /\ \E leftover \in {None, Some(Partial(Unwrap(to_string_pretty(NewerSnapshot))))} :
         saFiles = [name \in SaveNames(saPath) |->
                      IF name = saPath THEN saPrevious
                      ELSE IF name = temp_path(saPath) THEN leftover
                      ELSE None]
    /\ saPc = "called"

\* to_string_pretty (line 81), then std::fs::write (line 82) opens and
\* truncates the temporary file and starts writing.
OpenTemp ==
    /\ saPc = "called"
    /\ IF to_string_pretty(saState) = None
       THEN saPc' = "failed" /\ UNCHANGED saFiles
       ELSE /\ saFiles' = [saFiles EXCEPT
                             ![temp_path(saPath)] = Some(Partial(Unwrap(to_string_pretty(saState))))]
            /\ saPc' = "writing"
    /\ UNCHANGED <<saPath, saState, saPrevious, nonSaVars>>

\* std::fs::write (line 82) has written everything.
FinishTemp ==
    /\ saPc = "writing"
    /\ saFiles' = [saFiles EXCEPT ![temp_path(saPath)] = SavedAs(saState)]
    /\ saPc' = "written"
    /\ UNCHANGED <<saPath, saState, saPrevious, nonSaVars>>

\* std::fs::write returns an error (a full disk), and save returns it.
WriteFails ==
    /\ saPc = "writing"
    /\ saPc' = "failed"
    /\ UNCHANGED <<saPath, saState, saPrevious, saFiles, nonSaVars>>

\* std::fs::rename(&temp_path, path) (line 85)
RenameTemp ==
    /\ saPc = "written"
    /\ saFiles' = IF temp_path(saPath) = saPath THEN saFiles
                  ELSE [saFiles EXCEPT ![saPath] = saFiles[temp_path(saPath)],
                                       ![temp_path(saPath)] = None]
    /\ saPc' = "saved"
    /\ UNCHANGED <<saPath, saState, saPrevious, nonSaVars>>

\* The process is killed between two steps of the save.
CrashInSave ==
    /\ saPc \in {"writing", "written"}
    /\ saPc' = "crashed"
    /\ UNCHANGED <<saPath, saState, saPrevious, saFiles, nonSaVars>>

InitSave == IdleChunk /\ IdleRead /\ IdleWrite /\ IdleLock /\ IdleIndex /\ IdleMcp /\ IdleBootstrap /\ IdleSearch /\ IdleState /\ IdleExit /\ IdleDebounce /\ IdleScan /\ IdleConcurrent /\ IdleSnapshot /\ StartSave /\ IdleGlob
NextSave == OpenTemp \/ FinishTemp \/ WriteFails \/ RenameTemp \/ CrashInSave
SpecSave == InitSave /\ [][NextSave]_vars

\* The target holds the complete previous snapshot or the complete new one.
TargetIsComplete ==
    \/ saFiles[saPath] = saPrevious
    \/ saFiles[saPath] = SavedAs(saState)

\* C38 (as stated): the new content is written to index-state.json.tmp and
\* then renamed over index-state.json, and at every step of a save, a crash
\* between steps included, index-state.json holds the complete previous
\* snapshot or the complete new one.
C38_AtomicViaJsonTmp ==
    /\ TargetIsComplete
    /\ saPc = "written" => saFiles[AppendedTmp(saPath)] = SavedAs(saState)

\* C38 (amended): the new content is written to the path with its extension
\* replaced by "tmp" (index-state.tmp) and then renamed over the target, and
\* at every step of a save, a crash between steps included, the target holds
\* the complete previous snapshot or the complete new one; after the rename
\* it holds the new one and the temporary file is gone.
C38_AtomicViaTmp ==
    /\ TargetIsComplete
    /\ saPc = "written" => saFiles[temp_path(saPath)] = SavedAs(saState)
    /\ saPc = "saved" => /\ saFiles[saPath] = SavedAs(saState)
                         /\ saFiles[temp_path(saPath)] = None

\* A save that replaced an earlier snapshot crashed with the temporary file
\* half written over the leftover of an earlier crash.
C38_Witness ==
    /\ saPc = "crashed"
    /\ saPath = INDEX_STATE_JSON
    /\ IsSome(saPrevious)
    /\ saFiles[saPath] = saPrevious
    /\ saFiles[temp_path(saPath)] = Some(Partial(Unwrap(to_string_pretty(saState))))
    /\ SavedAs(saState) # saPrevious

------------------------------------------------------------------------------
(* Loading a snapshot file that was damaged: src/src/index/state.rs 48-70,
   called by FileWatcher::new (src/src/watcher/mod.rs 61-63) *)

\* What a damaged index-state.json can hold: nothing, or the snapshot with a
\* field cut short.
Damaged(file) ==
    {[version |-> <<>>, last_updated |-> <<>>, files |-> {}]}
    \cup (IF file = None THEN {}
          ELSE {[Unwrap(file) EXCEPT !.version = <<>>],
                [Unwrap(file) EXCEPT !.last_updated = <<"-">>]})

\* Something other than save leaves the file damaged (a disk fault, an edit
\* by hand, a copy cut short).
DamageFile ==
    /\ stSteps > 0
    /\ \E content \in Damaged(stFile) : stFile' = Some(content)
    /\ stLast' = [op |-> "damage", ok |-> TRUE]
    /\ stSteps' = stSteps - 1
    /\ UNCHANGED <<stState, stSaved, nonStVars>>

NextDamaged == StateUpdateFile \/ StateRemoveFile \/ StateSave \/ StateLoad \/ DamageFile
SpecDamaged == InitState /\ [][NextDamaged]_vars

\* The file is there and does not parse.
Unparsable == IsSome(stFile) /\ from_str(Unwrap(stFile)) = None

\* C39: when the persisted snapshot cannot be parsed, load succeeds with a
\* fresh empty snapshot, so the watcher's startup goes on.
C39_UnparsableSnapshotIsRecreated ==
    (stLast.op = "load" /\ Unparsable) =>
        /\ stLast.ok
        /\ stState.files = <<>>
        /\ stState.version = INDEX_STATE_VERSION

------------------------------------------------------------------------------
(* Wildcard patterns of .flashgrepignore: src/src/index/scanner.rs,
   match_pattern (240-261) and glob_match (264-299) *)

MaxGlobLen == 3
LOG_PATTERN == <<"*", ".", "l", "o", "g">>

\* Patterns with a wildcard and names of one segment, of up to MaxGlobLen
\* characters, with "*.log" and names that end in ".log" or nearly.
GlobPatterns ==
    {p \in TextsUpTo({"*", "?", "a", "."}, MaxGlobLen) :
        \E i \in 1..Len(p) : p[i] \in {"*", "?"}}
    \cup {LOG_PATTERN}
GlobNames ==
    TextsUpTo({"a", "."}, MaxGlobLen)
    \cup { <<"a", ".", "l", "o", "g">>, <<".", "l", "o", "g">>,
           <<"a", ".", ".", "l", "o", "g">>, <<"a", ".", "l", "o">> }

StartGlob ==
    /\ glPattern \in GlobPatterns
    /\ glName \in GlobNames
    /\ glMatched = None

\* match_pattern(path, pattern) on the name.
MatchPattern ==
    /\ glMatched = None
    /\ glMatched' = Some(match_pattern(glName, glPattern))
    /\ UNCHANGED <<glPattern, glName, nonGlVars>>

InitGlob == IdleChunk /\ IdleRead /\ IdleWrite /\ IdleLock /\ IdleIndex /\ IdleMcp /\ IdleBootstrap /\ IdleSearch /\ IdleState /\ IdleExit /\ IdleDebounce /\ IdleScan /\ IdleConcurrent /\ IdleSnapshot /\ IdleSave /\ StartGlob
SpecGlob == InitGlob /\ [][MatchPattern]_vars

\* Some choice of runs makes the pattern equal the name: "*" stands for any
\* run, the empty one included, of characters other than "/", "?" for one
\* character, and every other character for itself.
RECURSIVE WildcardMatches(_, _)
WildcardMatches(pattern, name) ==
    IF pattern = <<>> THEN name = <<>>
    ELSE IF pattern[1] = "*"
    THEN \E k \in 0..Len(name) :
            /\ \A i \in 1..k : name[i] # "/"
            /\ WildcardMatches(Tail(pattern), SubSeq(name, k + 1, Len(name)))
    ELSE /\ name # <<>>
         /\ pattern[1] = "?" \/ pattern[1] = name[1]
         /\ WildcardMatches(Tail(pattern), Tail(name))

\* C40: a name matches a wildcard pattern exactly when some choice of runs
\* for its "*" (any run of non-separator characters, the empty one included)
\* and of one character for each "?" makes the pattern equal the name; so
\* "*.log" matches every name that ends in ".log".
C40_WildcardsMatchAsRuns ==
    IsSome(glMatched) => Unwrap(glMatched) = WildcardMatches(glPattern, glName)

=============================================================================
